---- MODULE Spec2Model ----
(***************************************************************************)
(* Model of mcp-filesystem.                                                *)
(*                                                                         *)
(* Spec: the path sandbox, that is validatePath of src/utils/path (with    *)
(* its PathValidationCache), the tools read_file, write_file and edit_file *)
(* that hand the validated path to raw I/O, and the validatePath of the    *)
(* standalone server.                                                      *)
(* SpecStartup: the check of the roots before the transport is connected.  *)
(* SpecEdit: editFile and applyFileEdits on the text of a file.            *)
(* SpecMulti: readMultipleFiles and its results object.                    *)
(* SpecMove: the handler of move_file.                                     *)
(* SpecMkdir: the handler of create_directory.                             *)
(* SpecExec: executeCommand and the child process it starts.               *)
(* SpecCache: PathValidationCache under concurrent validations, with the   *)
(* clock of its expiry timers.                                             *)
(* SpecConfig: loadConfig and the startup on the Config it returns.        *)
(*                                                                         *)
(* A path string, and the text of a file, is a sequence of one-character   *)
(* strings, so that String.startsWith, path.resolve, path.normalize,       *)
(* path.dirname, split, join and replace are computed on characters as the *)
(* code computes them.  The filesystem is a function from node paths       *)
(* (sequences of segments) to node kinds.                                  *)
(***************************************************************************)
EXTENDS Integers, Sequences, FiniteSets, TLC

\* ------------------------------------------------------------------------
\* Bounds of the model
\* ------------------------------------------------------------------------

\* capacity of the validation cache (stands for the default of 1000)
MaxSize == 2

\* at most this many expiry timers are pending at once
MaxTimers == 2

\* symlinks followed by one resolution before ELOOP is reported
MaxLinks == 3

\* ------------------------------------------------------------------------
\* Strings
\* ------------------------------------------------------------------------

Sep == "/"

\* String.prototype.startsWith
StartsWith(s, pre) ==
  /\ Len(pre) <= Len(s)
  /\ SubSeq(s, 1, Len(pre)) = pre

\* String.prototype.slice(n)
Slice(s, n) == SubSeq(s, n + 1, Len(s))

\* the segments of a path string: split at "/", empty segments dropped
RECURSIVE SplitFrom(_, _, _)
SplitFrom(s, i, cur) ==
  IF i > Len(s)
  THEN (IF cur = <<>> THEN <<>> ELSE <<cur>>)
  ELSE IF s[i] = Sep
       THEN (IF cur = <<>> THEN SplitFrom(s, i + 1, <<>>)
                           ELSE <<cur>> \o SplitFrom(s, i + 1, <<>>))
       ELSE SplitFrom(s, i + 1, Append(cur, s[i]))

Segments(s) == SplitFrom(s, 1, <<>>)

\* collapse "." and ".." of an absolute path (".." at the root stays there)
RECURSIVE NormFrom(_, _, _)
NormFrom(segs, i, out) ==
  IF i > Len(segs) THEN out
  ELSE IF segs[i] = <<".">> THEN NormFrom(segs, i + 1, out)
  ELSE IF segs[i] = <<".", ".">>
       THEN NormFrom(segs, i + 1,
                     IF out = <<>> THEN <<>> ELSE SubSeq(out, 1, Len(out) - 1))
       ELSE NormFrom(segs, i + 1, Append(out, segs[i]))

NormSegs(segs) == NormFrom(segs, 1, <<>>)

\* the absolute path string of a sequence of segments
RECURSIVE JoinSegs(_)
JoinSegs(segs) ==
  IF segs = <<>> THEN <<>>
  ELSE <<Sep>> \o Head(segs) \o JoinSegs(Tail(segs))

ToPath(segs) == IF segs = <<>> THEN <<Sep>> ELSE JoinSegs(segs)

\* path.isAbsolute
isAbsolute(p) == Len(p) > 0 /\ p[1] = Sep

\* path.normalize of an absolute path: a trailing separator is kept
pathNormalize(p) ==
  LET n == ToPath(NormSegs(Segments(p)))
  IN  IF Len(p) > 0 /\ p[Len(p)] = Sep /\ n # <<Sep>> THEN Append(n, Sep) ELSE n

\* path.resolve(from, p) with from absolute: never a trailing separator
pathResolve(from, p) ==
  IF isAbsolute(p) THEN ToPath(NormSegs(Segments(p)))
  ELSE ToPath(NormSegs(Segments(from) \o Segments(p)))

\* path.join(a, b) with a absolute
pathJoin(a, b) == pathNormalize(a \o <<Sep>> \o b)

\* path.dirname of an absolute path without trailing separator
pathDirname(p) ==
  LET segs == Segments(p)
  IN  IF Len(segs) <= 1 THEN <<Sep>> ELSE JoinSegs(SubSeq(segs, 1, Len(segs) - 1))

\* os.homedir() and process.cwd() of the server process
HomeDir == <<"/", "b">>
Cwd == <<"/", "a">>

\* normalizePath of src/utils/path
normalizePath(p) == pathNormalize(p)

\* expandHome of src/utils/path
expandHome(filepath) ==
  IF StartsWith(filepath, <<"~", "/">>) \/ filepath = <<"~">>
  THEN pathJoin(HomeDir, Slice(filepath, 1))
  ELSE filepath

\* ------------------------------------------------------------------------
\* The filesystem
\* ------------------------------------------------------------------------

a == <<"a">>
ax == <<"a", "x">>
b == <<"b">>
r == <<"r">>
d == <<"d">>
f == <<"f">>
l == <<"l">>
s == <<"s">>

Absent == [t |-> "absent", to |-> <<>>]
File == [t |-> "file", to |-> <<>>]
Dir == [t |-> "dir", to |-> <<>>]
Link(target) == [t |-> "link", to |-> target]

\* nodes that keep their kind: the directories /a, /ax and /b, the symlink
\* /r to the directory /b and the symlink /d to the directory /a
FixedKind(n) ==
  IF n = <<r>> THEN Link(<<b>>)
  ELSE IF n = <<d>> THEN Link(<<a>>)
  ELSE Dir

FixedNodes == {<<a>>, <<ax>>, <<b>>, <<r>>, <<d>>}

\* nodes that other processes create, delete and retarget
MutableNodes == {<<a, f>>, <<a, l>>, <<b, s>>, <<ax, s>>}

Nodes == FixedNodes \cup MutableNodes

\* the kinds a mutable node takes
KindsOf(n) ==
  IF n = <<a, l>>
  THEN {Absent, File, Link(<<b, s>>), Link(<<a, f>>), Link(<<a, l>>)}
  ELSE {Absent, File}

\* the node at a path; the root is a directory, a path outside the
\* universe names nothing
NodeAt(fsys, p) ==
  IF p = <<>> THEN Dir
  ELSE IF p \in DOMAIN fsys THEN fsys[p]
  ELSE Absent

Put(fsys, p, k) ==
  IF p \in DOMAIN fsys THEN [fsys EXCEPT ![p] = k] ELSE fsys

Ok(p) == [err |-> "", path |-> p]
Errno(e, p) == [err |-> e, path |-> p]

\* path resolution of the operating system: cur is the resolved directory,
\* rest the segments still to walk.  With create, a missing last component
\* resolves to the place where open(O_CREAT) makes the file.
RECURSIVE Walk(_, _, _, _, _)
Walk(fsys, cur, rest, fuel, create) ==
  IF rest = <<>> THEN Ok(cur)
  ELSE LET p == Append(cur, Head(rest))
           n == NodeAt(fsys, p)
           last == Tail(rest) = <<>>
       IN  CASE n.t = "absent" ->
                  IF create /\ last THEN Ok(p) ELSE Errno("ENOENT", p)
             [] n.t = "file" ->
                  IF last THEN Ok(p) ELSE Errno("ENOTDIR", p)
             [] n.t = "dir" -> Walk(fsys, p, Tail(rest), fuel, create)
             [] n.t = "link" ->
                  IF fuel = 0 THEN Errno("ELOOP", p)
                  ELSE Walk(fsys, <<>>, n.to \o Tail(rest), fuel - 1, create)

\* fs.realpath of an absolute path string: the real path string or an errno
realpath(fsys, p) ==
  LET w == Walk(fsys, <<>>, Segments(p), MaxLinks, FALSE)
  IN  IF w.err = "" THEN [err |-> "", path |-> ToPath(w.path)]
      ELSE [err |-> w.err, path |-> p]

\* the file that open(p, O_RDONLY) reads
OpenRead(fsys, p) ==
  LET w == Walk(fsys, <<>>, Segments(p), MaxLinks, FALSE)
  IN  IF w.err = "" /\ NodeAt(fsys, w.path).t = "dir" THEN Errno("EISDIR", w.path)
      ELSE w

\* the file that open(p, O_WRONLY | O_CREAT | O_TRUNC) writes: a symlink in
\* the last component is followed, also when its target does not exist yet
OpenWrite(fsys, p) ==
  LET w == Walk(fsys, <<>>, Segments(p), MaxLinks, TRUE)
  IN  IF w.err = "" /\ NodeAt(fsys, w.path).t = "dir" THEN Errno("EISDIR", w.path)
      ELSE w

\* fs.mkdir(p, {recursive: true}): the filesystem with the missing
\* directories made, or an errno
RECURSIVE MkdirWalk(_, _, _, _)
MkdirWalk(fsys, cur, rest, fuel) ==
  IF rest = <<>> THEN [err |-> "", fs |-> fsys]
  ELSE LET p == Append(cur, Head(rest))
           n == NodeAt(fsys, p)
       IN  CASE n.t = "absent" -> MkdirWalk(Put(fsys, p, Dir), p, Tail(rest), fuel)
             [] n.t = "file" ->
                  [err |-> IF Tail(rest) = <<>> THEN "EEXIST" ELSE "ENOTDIR", fs |-> fsys]
             [] n.t = "dir" -> MkdirWalk(fsys, p, Tail(rest), fuel)
             [] n.t = "link" ->
                  IF fuel = 0 THEN [err |-> "ELOOP", fs |-> fsys]
                  ELSE MkdirWalk(fsys, <<>>, n.to \o Tail(rest), fuel - 1)

mkdirRecursive(fsys, p) == MkdirWalk(fsys, <<>>, Segments(p), MaxLinks)

\* ------------------------------------------------------------------------
\* State
\* ------------------------------------------------------------------------

VARIABLES
  config,   \* the Config: allowedDirectories and the security settings
  cands,    \* the candidate strings the client sends in this run
  fs,       \* the filesystem
  cache,    \* pathCache: the entries of the Map, in insertion order
  timers,   \* the pending setTimeout callbacks of the cache, in firing order
  call,     \* the tool call in flight and what it has done
  boot,     \* the startup of the server: the root checks and the transport
  text,     \* the content of the regular files
  edit,     \* the edit_file call and its result
  multi,    \* the read_multiple_files call: its tasks and its results object
  move,     \* the move_file call
  mk,       \* the create_directory call
  exec,     \* the execute_command call and the child process it started
  pv,       \* the clock, the validations in flight and the cache's history
  load      \* process.argv, the configuration file and what loadConfig did

vars == <<config, cands, fs, cache, timers, call, boot, text, edit, multi, move,
          mk, exec, pv, load>>

\* what the path sandbox leaves alone
others == <<boot, text, edit, multi, move, mk, exec, pv, load>>

\* the candidate strings of the client
Candidates ==
  { <<"/", "a", "/", "l">>,
    <<"/", "a", "/", "f">>,
    <<"/", "a", "/", "f", "/", "x">>,
    <<"/", "a", "/", "f", "/", "x", "/", "y">>,
    <<"/", "a", "x">>,
    <<"/", "a", "x", "/", "s">>,
    <<"/", "b", "/", "s">>,
    <<"/", "a", "/", ".", ".", "/", "b", "/", "s">>,
    <<"/", "r", "/", "s">>,
    <<"/", "d", "/", "l">>,
    <<"l">>,
    <<"~", "/", "s">> }

\* the allow-lists of the runs: every directory passes the startup check
\* (fs.stat follows the symlink /r to the directory /b)
RootLists ==
  { << <<"/", "a">> >>,
    << <<"/", "a">>, <<"/", "r">> >> }

\* the security settings of the runs: the defaults, and both checks off
InitSecurities ==
  { [allowSymlinks |-> TRUE, validateRealPath |-> TRUE],
    [allowSymlinks |-> FALSE, validateRealPath |-> FALSE] }

InitFs ==
  [n \in Nodes |->
     IF n \in FixedNodes THEN FixedKind(n)
     ELSE IF n \in {<<a, f>>, <<ax, s>>} THEN File
     ELSE IF n = <<a, l>> THEN Link(<<b, s>>)
     ELSE Absent]

Idle ==
  [srv |-> "", tool |-> "", pc |-> "idle", req |-> <<>>, absolute |-> <<>>,
   via |-> "", valid |-> <<>>, verr |-> "", vpath |-> <<>>, vmsg |-> "",
   terr |-> "", io |-> "", ioLoc |-> <<>>, ioStable |-> TRUE, stable |-> TRUE]

\* the server after a startup in which fs.stat found every root a directory
Connected(dirs) ==
  [srv |-> "main", pc |-> "connected", seen |-> [i \in DOMAIN dirs |-> "dir"],
   handled |-> 0]

\* every regular file is empty
NoText == [n \in MutableNodes |-> <<>>]

\* no edit_file call yet
NoEdit == [pc |-> "idle"]

\* no read_multiple_files call yet
NoMulti == [pc |-> "idle", paths |-> <<>>]

\* no move_file call yet
NoMove == [pc |-> "idle"]

\* no create_directory call yet
NoMk == [pc |-> "idle"]

\* no execute_command call yet
NoExec == [pc |-> "idle"]

\* no clock and no history of the cache
NoPv == [pc |-> "idle"]

\* the configuration is loaded
NoLoad == [pc |-> "loaded"]

\* ------------------------------------------------------------------------
\* PathValidationCache
\* ------------------------------------------------------------------------

\* Map.prototype.get: the value, or <<>> for undefined
RECURSIVE MapGet(_, _)
MapGet(m, k) ==
  IF m = <<>> THEN <<>>
  ELSE IF Head(m).k = k THEN Head(m).v
  ELSE MapGet(Tail(m), k)

MapHas(m, k) == \E i \in DOMAIN m : m[i].k = k

\* a delete that leaves the entry where it is
MapDelete_Keeps(m, k) == m

\* Map.prototype.delete
RECURSIVE MapDelete(_, _)
MapDelete(m, k) ==
  IF m = <<>> THEN <<>>
  ELSE IF Head(m).k = k THEN Tail(m)
  ELSE <<Head(m)>> \o MapDelete(Tail(m), k)

\* Map.prototype.set: an existing key keeps its place
MapSet(m, k, v) ==
  IF MapHas(m, k)
  THEN [i \in DOMAIN m |-> IF m[i].k = k THEN [k |-> k, v |-> v] ELSE m[i]]
  ELSE Append(m, [k |-> k, v |-> v])

\* PathValidationCache.get
CacheGet(m, path) == MapGet(m, path)

\* PathValidationCache.set, the Map part: evict the oldest entry of a full
\* cache (an empty oldest key is falsy and stays), then store
CacheSet(m, path, validatedPath) ==
  LET evicted ==
        IF Len(m) >= MaxSize
        THEN (IF Head(m).k # <<>> THEN MapDelete(m, Head(m).k) ELSE m)
        ELSE m
  IN  MapSet(evicted, path, validatedPath)

\* ------------------------------------------------------------------------
\* validatePath of src/utils/path
\* ------------------------------------------------------------------------

MsgOutside == "Access denied - path outside allowed directories"
MsgSymlink == "Access denied - symlink target outside allowed directories"
MsgParent == "Access denied - parent directory outside allowed directories"
MsgNotFound == "Path not found"
MsgNoParent == "Parent directory does not exist"

\* the absolute path of a candidate: expandHome, then path.resolve
Absolute(requestedPath) == pathResolve(Cwd, expandHome(requestedPath))

\* config.allowedDirectories.some((dir) => normalized.startsWith(dir))
isAllowed(cfg, normalized) ==
  \E i \in DOMAIN cfg.allowedDirectories :
     StartsWith(normalized, cfg.allowedDirectories[i])

Returned(p) == [kind |-> "return", path |-> p, code |-> "", msg |-> ""]
Thrown(code, p, msg) == [kind |-> "throw", path |-> p, code |-> code, msg |-> msg]
Pending(p) == [kind |-> "await", path |-> p, code |-> "", msg |-> ""]

\* validatePath up to its first filesystem call: the cached path of a
\* candidate, AccessDenied for a path that starts with no allowed directory
validateLexical(cfg, m, requestedPath) ==
  LET cachedPath == CacheGet(m, requestedPath)
      absolute == Absolute(requestedPath)
      normalizedRequested == normalizePath(absolute)
  IN  IF cachedPath # <<>> THEN Returned(cachedPath)
      ELSE IF ~isAllowed(cfg, normalizedRequested)
           THEN Thrown("ACCESS_DENIED", absolute, MsgOutside)
           ELSE Pending(absolute)

\* a validateReal that honours security.validateRealPath: with the setting
\* off, the real path is returned unchecked
validateReal_Optional(cfg, fsys, absolute) ==
  LET rp == realpath(fsys, absolute)
  IN  IF rp.err = ""
      THEN (IF ~cfg.security.validateRealPath \/ isAllowed(cfg, normalizePath(rp.path))
            THEN Returned(rp.path)
            ELSE Thrown("ACCESS_DENIED", absolute, MsgSymlink))
      ELSE IF rp.err = "ENOENT" THEN Pending(pathDirname(absolute))
      ELSE Thrown(rp.err, absolute, "")

\* the try block: realpath of the candidate and the check of the real path;
\* an error other than ENOENT leaves validatePath as it is
validateReal(cfg, fsys, absolute) ==
  LET rp == realpath(fsys, absolute)
  IN  IF rp.err = ""
      THEN (IF isAllowed(cfg, normalizePath(rp.path))
            THEN Returned(rp.path)
            ELSE Thrown("ACCESS_DENIED", absolute, MsgSymlink))
      ELSE IF rp.err = "ENOENT" THEN Pending(pathDirname(absolute))
      ELSE Thrown(rp.err, absolute, "")

\* a validateParent that returns the real path of the parent
validateParent_ReturnsParent(cfg, fsys, absolute) ==
  LET parentDir == pathDirname(absolute)
      rp == realpath(fsys, parentDir)
  IN  IF rp.err = ""
      THEN (IF isAllowed(cfg, normalizePath(rp.path))
            THEN Returned(rp.path)
            ELSE Thrown("ACCESS_DENIED", parentDir, MsgParent))
      ELSE IF rp.err = "ENOENT" THEN Thrown("PATH_NOT_FOUND", parentDir, MsgNotFound)
      ELSE Thrown(rp.err, parentDir, "")

\* the ENOENT branch: realpath of the parent directory and its check
validateParent(cfg, fsys, absolute) ==
  LET parentDir == pathDirname(absolute)
      rp == realpath(fsys, parentDir)
  IN  IF rp.err = ""
      THEN (IF isAllowed(cfg, normalizePath(rp.path))
            THEN Returned(absolute)
            ELSE Thrown("ACCESS_DENIED", parentDir, MsgParent))
      ELSE IF rp.err = "ENOENT" THEN Thrown("PATH_NOT_FOUND", parentDir, MsgNotFound)
      ELSE Thrown(rp.err, parentDir, "")

\* validatePath as a whole, on a filesystem that does not change during the
\* call: what it returns or throws
validatePath(cfg, fsys, m, requestedPath) ==
  LET lexical == validateLexical(cfg, m, requestedPath)
      real == validateReal(cfg, fsys, lexical.path)
  IN  IF lexical.kind # "await" THEN lexical
      ELSE IF real.kind # "await" THEN real
      ELSE validateParent(cfg, fsys, lexical.path)

\* ------------------------------------------------------------------------
\* validatePath of the standalone server
\* ------------------------------------------------------------------------

standaloneLexical(cfg, requestedPath) ==
  LET absolute == Absolute(requestedPath)
  IN  IF ~isAllowed(cfg, normalizePath(absolute))
      THEN Thrown("Error", absolute, MsgOutside)
      ELSE Pending(absolute)

\* the try block: whatever is thrown in it, the error of the real-path
\* check included, is caught and leads to the check of the parent
standaloneReal(cfg, fsys, absolute) ==
  LET rp == realpath(fsys, absolute)
  IN  IF rp.err = "" /\ isAllowed(cfg, normalizePath(rp.path))
      THEN Returned(rp.path)
      ELSE Pending(pathDirname(absolute))

\* the catch block: every error of the parent check becomes the same Error
standaloneParent(cfg, fsys, absolute) ==
  LET parentDir == pathDirname(absolute)
      rp == realpath(fsys, parentDir)
  IN  IF rp.err = "" /\ isAllowed(cfg, normalizePath(rp.path))
      THEN Returned(absolute)
      ELSE Thrown("Error", parentDir, MsgNoParent)

\* ------------------------------------------------------------------------
\* Tool calls
\* ------------------------------------------------------------------------

\* read_file, write_file, edit_file, and "validate" for the tools that only
\* hand the validated path on (list_directory, get_file_info, ...)
Tools == {"validate", "read", "write", "edit"}

\* the call after validatePath threw
Throw(cl, out) ==
  [cl EXCEPT !.pc = "done", !.verr = out.code, !.vpath = out.path, !.vmsg = out.msg]

\* the calls after validatePath returned validPath: readFile goes on to
\* validateFileSize, writeFile to its size check and mkdir, editFile to its
\* read of the file
Continue(cl, validPath, via) ==
  LET v == [cl EXCEPT !.valid = validPath, !.via = via]
  IN  CASE cl.tool = "validate" -> {[v EXCEPT !.pc = "done"]}
        [] cl.tool = "read" -> {[v EXCEPT !.pc = "stat"]}
        [] cl.tool = "write" ->
             {[v EXCEPT !.pc = "mkdir"],
              [v EXCEPT !.pc = "done", !.terr = "FILE_SIZE_EXCEEDED"]}
        [] cl.tool = "edit" -> {[v EXCEPT !.pc = "read"]}

\* a tool of the server calls validatePath(c, config): cache lookup and the
\* check of the normalized requested path
Call(tool, c) ==
  /\ call.pc \in {"idle", "done"}
  /\ Len(timers) < MaxTimers
  /\ LET cl == [Idle EXCEPT !.srv = "main", !.tool = tool, !.req = c,
                            !.absolute = Absolute(c)]
         out == validateLexical(config, cache, c)
     IN  CASE out.kind = "return" -> call' \in Continue(cl, out.path, "cache")
           [] out.kind = "throw" -> call' = Throw(cl, out)
           [] out.kind = "await" -> call' = [cl EXCEPT !.pc = "real"]
  /\ UNCHANGED <<config, cands, fs, cache, timers>>
  /\ UNCHANGED others

\* pathCache.set(requestedPath, validatedPath): store, and schedule the
\* expiry of the entry
CacheStore(validatedPath) ==
  /\ cache' = CacheSet(cache, call.req, validatedPath)
  /\ timers' = Append(timers, call.req)

\* fs.realpath(absolute) has answered
ValidateReal ==
  /\ call.srv = "main" /\ call.pc = "real"
  /\ LET out == validateReal(config, fs, call.absolute)
     IN  CASE out.kind = "return" ->
                /\ call' \in Continue(call, out.path, "real")
                /\ CacheStore(out.path)
           [] out.kind = "throw" ->
                /\ call' = Throw(call, out)
                /\ UNCHANGED <<cache, timers>>
           [] out.kind = "await" ->
                /\ call' = [call EXCEPT !.pc = "parent"]
                /\ UNCHANGED <<cache, timers>>
  /\ UNCHANGED <<config, cands, fs>>
  /\ UNCHANGED others

\* fs.realpath(parentDir) has answered
ValidateParent ==
  /\ call.srv = "main" /\ call.pc = "parent"
  /\ LET out == validateParent(config, fs, call.absolute)
     IN  CASE out.kind = "return" ->
                /\ call' \in Continue(call, out.path, "parent")
                /\ CacheStore(out.path)
           [] out.kind = "throw" ->
                /\ call' = Throw(call, out)
                /\ UNCHANGED <<cache, timers>>
  /\ UNCHANGED <<config, cands, fs>>
  /\ UNCHANGED others

\* the standalone server validates a path of a request
StandaloneCall(c) ==
  /\ call.pc \in {"idle", "done"}
  /\ LET cl == [Idle EXCEPT !.srv = "standalone", !.tool = "validate", !.req = c,
                            !.absolute = Absolute(c)]
         out == standaloneLexical(config, c)
     IN  CASE out.kind = "throw" -> call' = Throw(cl, out)
           [] out.kind = "await" -> call' = [cl EXCEPT !.pc = "real"]
  /\ UNCHANGED <<config, cands, fs, cache, timers>>
  /\ UNCHANGED others

StandaloneReal ==
  /\ call.srv = "standalone" /\ call.pc = "real"
  /\ LET out == standaloneReal(config, fs, call.absolute)
     IN  CASE out.kind = "return" -> call' \in Continue(call, out.path, "real")
           [] out.kind = "await" -> call' = [call EXCEPT !.pc = "parent"]
  /\ UNCHANGED <<config, cands, fs, cache, timers>>
  /\ UNCHANGED others

StandaloneParent ==
  /\ call.srv = "standalone" /\ call.pc = "parent"
  /\ LET out == standaloneParent(config, fs, call.absolute)
     IN  CASE out.kind = "return" -> call' \in Continue(call, out.path, "parent")
           [] out.kind = "throw" -> call' = Throw(call, out)
  /\ UNCHANGED <<config, cands, fs, cache, timers>>
  /\ UNCHANGED others

\* the tool threw after validation
Fails(cl, e) == [cl EXCEPT !.pc = "done", !.terr = e]

\* readFile: validateFileSize stats the validated path; the catch of
\* readFile turns ENOENT into PathNotFoundError(args.path)
ReadStat ==
  /\ call.tool = "read" /\ call.pc = "stat"
  /\ LET w == Walk(fs, <<>>, Segments(call.valid), MaxLinks, FALSE)
     IN  IF w.err = "ENOENT" THEN call' = Fails(call, "PATH_NOT_FOUND")
         ELSE IF w.err # "" THEN call' = Fails(call, w.err)
         ELSE call' \in {[call EXCEPT !.pc = "read"], Fails(call, "Error")}
  /\ UNCHANGED <<config, cands, fs, cache, timers>>
  /\ UNCHANGED others

\* readFile: fs.readFile(validPath)
ReadFile ==
  /\ call.tool = "read" /\ call.pc = "read"
  /\ LET w == OpenRead(fs, call.valid)
     IN  IF w.err = "ENOENT" THEN call' = Fails(call, "PATH_NOT_FOUND")
         ELSE IF w.err # "" THEN call' = Fails(call, w.err)
         ELSE call' = [call EXCEPT !.pc = "done", !.io = "read", !.ioLoc = w.path,
                                   !.ioStable = call.stable]
  /\ UNCHANGED <<config, cands, fs, cache, timers>>
  /\ UNCHANGED others

\* editFile: fs.readFile(validPath), then the edits on the text in memory:
\* an edit that matches nowhere throws, an empty edit list and a dry run
\* return without writing
EditRead ==
  /\ call.tool = "edit" /\ call.pc = "read"
  /\ LET w == OpenRead(fs, call.valid)
         rd == [call EXCEPT !.io = "read", !.ioLoc = w.path, !.ioStable = call.stable]
     IN  IF w.err # "" THEN call' = Fails(call, w.err)
         ELSE call' \in {Fails(rd, "Error"), [rd EXCEPT !.pc = "done"],
                         [rd EXCEPT !.pc = "write"]}
  /\ UNCHANGED <<config, cands, fs, cache, timers>>
  /\ UNCHANGED others

\* writeFile: fs.mkdir(path.dirname(validPath), {recursive: true})
WriteMkdir ==
  /\ call.tool = "write" /\ call.pc = "mkdir"
  /\ LET m == mkdirRecursive(fs, pathDirname(call.valid))
     IN  IF m.err # ""
         THEN /\ call' = Fails(call, m.err)
              /\ fs' = fs
         ELSE /\ call' = [call EXCEPT !.pc = "write",
                                      !.stable = call.stable /\ m.fs = fs]
              /\ fs' = m.fs
  /\ UNCHANGED <<config, cands, cache, timers>>
  /\ UNCHANGED others

\* writeFile and editFile: fs.writeFile(validPath, ...)
WriteFile ==
  /\ call.tool \in {"write", "edit"} /\ call.pc = "write"
  /\ LET w == OpenWrite(fs, call.valid)
     IN  IF w.err # ""
         THEN /\ call' = Fails(call, w.err)
              /\ fs' = fs
         ELSE /\ call' = [call EXCEPT !.pc = "done", !.io = "write", !.ioLoc = w.path,
                                      !.ioStable = call.stable, !.stable = FALSE]
              /\ fs' = Put(fs, w.path, File)
  /\ UNCHANGED <<config, cands, cache, timers>>
  /\ UNCHANGED others

\* the callback of setTimeout in PathValidationCache.set
TimerFire ==
  /\ timers # <<>>
  /\ cache' = MapDelete(cache, Head(timers))
  /\ timers' = Tail(timers)
  /\ UNCHANGED <<config, cands, fs, call>>
  /\ UNCHANGED others

\* another process creates, deletes or retargets a node
External(n, k) ==
  /\ fs[n] # k
  /\ fs' = [fs EXCEPT ![n] = k]
  /\ call' = IF call.pc = "idle" THEN call ELSE [call EXCEPT !.stable = FALSE]
  /\ UNCHANGED <<config, cands, cache, timers>>
  /\ UNCHANGED others

Init ==
  /\ config \in [allowedDirectories : RootLists, security : InitSecurities]
  /\ cands \in {{c} : c \in Candidates}
  /\ fs = InitFs
  /\ cache = <<>>
  /\ timers = <<>>
  /\ call = Idle
  /\ boot = Connected(config.allowedDirectories)
  /\ text = NoText
  /\ edit = NoEdit
  /\ multi = NoMulti
  /\ move = NoMove
  /\ mk = NoMk
  /\ exec = NoExec
  /\ pv = NoPv
  /\ load = NoLoad

Next ==
  \/ \E tool \in Tools, c \in cands : Call(tool, c)
  \/ ValidateReal
  \/ ValidateParent
  \/ \E c \in cands : StandaloneCall(c)
  \/ StandaloneReal
  \/ StandaloneParent
  \/ ReadStat
  \/ ReadFile
  \/ EditRead
  \/ WriteMkdir
  \/ WriteFile
  \/ TimerFire
  \/ \E n \in MutableNodes : \E k \in KindsOf(n) : External(n, k)

Spec == Init /\ [][Next]_vars

\* ------------------------------------------------------------------------
\* Vocabulary of the properties
\* ------------------------------------------------------------------------

Dirs == config.allowedDirectories

\* containment at a path-separator boundary: p is root or lies below it
SegUnder(root, p) ==
  /\ Len(root) <= Len(p)
  /\ SubSeq(p, 1, Len(root)) = root

\* the real location of a path string in the current filesystem
RealOf(p) == Walk(fs, <<>>, Segments(p), MaxLinks, FALSE)

\* p is on or under an allowed root as configured
UnderRoot(p) == \E i \in DOMAIN Dirs : SegUnder(Segments(Dirs[i]), p)

\* p is on or under an allowed root, as configured or at its real location
OnOrUnderRoot(p) ==
  \/ UnderRoot(p)
  \/ \E i \in DOMAIN Dirs :
       RealOf(Dirs[i]).err = "" /\ SegUnder(RealOf(Dirs[i]).path, p)

\* validatePath of src/utils/path has returned or thrown
MainDone == call.srv = "main" /\ (call.valid # <<>> \/ call.verr # "")

\* validatePath of the standalone server has returned or thrown
StandaloneDone == call.srv = "standalone" /\ (call.valid # <<>> \/ call.verr # "")

Denied == call.verr = "ACCESS_DENIED" /\ call.valid = <<>>

\* the candidate is a symlink that resolves to an existing location outside
\* every allowed root
EscapingSymlink ==
  /\ UnderRoot(Segments(call.absolute))
  /\ NodeAt(fs, Segments(call.absolute)).t = "link"
  /\ RealOf(call.absolute).err = ""
  /\ ~OnOrUnderRoot(RealOf(call.absolute).path)

\* no entry of the path exists
NotThere(p) == RealOf(p).err \in {"ENOENT", "ENOTDIR"}

\* ------------------------------------------------------------------------
\* Properties
\* ------------------------------------------------------------------------

\* C1: validatePath fails with AccessDenied, and returns no path, for every
\* candidate whose normalized absolute form is outside every allowed root and
\* for every candidate inside a root that is a symlink whose existing target
\* has its real path outside every root (the filesystem unchanged during the
\* call).
C1_DeniesOutsideAndEscapingSymlink ==
  (MainDone /\ call.stable) =>
     /\ ~OnOrUnderRoot(Segments(call.absolute)) => Denied
     /\ EscapingSymlink => Denied

\* C2: a path is not contained in an allowed root because the root's string
\* is a prefix of it: a candidate that starts with an allowed directory but
\* is neither the directory nor below it at a separator is denied.
C2_NoSiblingPrefixContainment ==
  (MainDone /\ isAllowed(config, normalizePath(call.absolute))
            /\ ~UnderRoot(Segments(call.absolute))) => Denied

\* C3: the file that write_file creates at a path accepted through the
\* non-existent-path branch of validatePath has its real location on or
\* under an allowed root (the filesystem unchanged from the call to the
\* write).
C3_CreatedFileInsideRoots ==
  (call.srv = "main" /\ call.tool = "write" /\ call.io = "write"
     /\ call.via = "parent" /\ call.ioStable)
    => OnOrUnderRoot(call.ioLoc)

\* C4: every raw read or write of read_file, write_file and edit_file acts on
\* a location whose real path is on or under an allowed root at the moment
\* of the I/O, under every interleaving with changes by other processes and
\* also for a validated path served from the cache.
C4_EveryIoInsideRoots ==
  (call.srv = "main" /\ call.io # "") => OnOrUnderRoot(call.ioLoc)

\* C5: for every allowed root (one reached through a symlink included) and
\* every existing path strictly inside it that does not leave the root
\* through a symlink, validatePath succeeds, returns the real path, and the
\* real path is on or under an allowed root.
C5_AcceptsExistingInsideRoot ==
  (MainDone /\ call.stable) =>
     \A i \in DOMAIN Dirs :
        LET root == Segments(Dirs[i])
            abs == Segments(call.absolute)
            real == RealOf(call.absolute)
            realRoot == RealOf(Dirs[i])
        IN  (/\ SegUnder(root, abs) /\ Len(abs) > Len(root)
             /\ real.err = "" /\ realRoot.err = ""
             /\ SegUnder(realRoot.path, real.path))
            => /\ call.verr = ""
               /\ call.valid = ToPath(real.path)
               /\ OnOrUnderRoot(real.path)

\* C6 as claimed: a candidate that does not exist and whose parent directory
\* exists with its real path inside an allowed root is accepted, and the
\* normalized absolute candidate is returned.
C6_AcceptsMissingUnderExistingParent ==
  (/\ MainDone /\ call.stable
   /\ RealOf(call.absolute).err = "ENOENT"
   /\ RealOf(pathDirname(call.absolute)).err = ""
   /\ UnderRoot(RealOf(pathDirname(call.absolute)).path))
  => (call.verr = "" /\ call.valid = normalizePath(call.absolute))

\* C6 as amended: the same for a candidate that has no entry in the
\* validation cache and whose normalized absolute form starts with an
\* allowed directory.
C6_AcceptsMissingWhenLexicallyAllowedAndUncached ==
  (/\ MainDone /\ call.stable
   /\ call.via # "cache"
   /\ isAllowed(config, normalizePath(call.absolute))
   /\ RealOf(call.absolute).err = "ENOENT"
   /\ RealOf(pathDirname(call.absolute)).err = ""
   /\ UnderRoot(RealOf(pathDirname(call.absolute)).path))
  => (call.verr = "" /\ call.valid = normalizePath(call.absolute))

\* C6, its case: a dangling symlink inside a root was accepted as itself
C6_Witness ==
  /\ MainDone /\ call.stable /\ call.via = "parent"
  /\ NodeAt(fs, Segments(call.absolute)).t = "link"
  /\ RealOf(call.absolute).err = "ENOENT"
  /\ UnderRoot(RealOf(pathDirname(call.absolute)).path)
  /\ call.valid = call.absolute

\* C7: for a candidate lexically inside an allowed root where neither the
\* candidate nor its parent directory exists, validatePath fails with
\* PathNotFound naming the parent directory.
C7_MissingParentIsPathNotFound ==
  (/\ MainDone /\ call.stable
   /\ UnderRoot(Segments(call.absolute))
   /\ NotThere(call.absolute)
   /\ NotThere(pathDirname(call.absolute)))
  => (call.verr = "PATH_NOT_FOUND" /\ call.vpath = pathDirname(call.absolute))

\* C8: every failure of validatePath is AccessDenied or PathNotFound.
C8_OnlyTwoDenialKinds ==
  (call.srv = "main" /\ call.verr # "")
    => call.verr \in {"ACCESS_DENIED", "PATH_NOT_FOUND"}

\* what the validatePath of the call in flight returned or threw
Outcome ==
  IF call.verr = "" THEN Returned(call.valid)
  ELSE Thrown(call.verr, call.vpath, call.vmsg)

\* the security settings a configuration file can carry
Securities == [allowSymlinks : BOOLEAN, validateRealPath : BOOLEAN]

\* C9: the outcome of validatePath for a candidate, allow-list, cache and
\* filesystem is the same for every value of security.validateRealPath and
\* security.allowSymlinks, and the outcome of a validation that ran against
\* the filesystem is the one every setting gives.
C9_OutcomeIndependentOfSecuritySettings ==
  \A sec \in Securities \ {config.security} :
     /\ \A c \in cands :
           validatePath([config EXCEPT !.security = sec], fs, cache, c)
             = validatePath(config, fs, cache, c)
     /\ (MainDone /\ call.stable /\ call.via # "cache")
          => Outcome = validatePath([config EXCEPT !.security = sec], fs, <<>>, call.req)

\* C9, its case: with both settings off, a symlink that leaves the roots
\* was denied by the check of its real path
C9_Witness ==
  /\ ~config.security.validateRealPath
  /\ ~config.security.allowSymlinks
  /\ MainDone /\ call.stable
  /\ EscapingSymlink
  /\ Denied /\ call.vmsg = MsgSymlink

\* C10: the validatePath of the standalone server throws an access-denied
\* error, and returns no path, for every candidate inside an allowed root
\* that is a symlink whose existing target is outside every allowed root.
C10_StandaloneDeniesEscapingSymlink ==
  (StandaloneDone /\ call.stable /\ EscapingSymlink)
    => /\ call.valid = <<>>
       /\ call.vmsg \in {MsgOutside, MsgSymlink, MsgParent}

\* ------------------------------------------------------------------------
\* Startup: the check of the roots before the transport is connected
\* ------------------------------------------------------------------------

\* requests followed after the transport is connected
MaxRequests == 2

\* the allow-lists a server is started with: directories, a symlink to a
\* directory, a regular file, a dangling symlink and a missing path
StartRootLists ==
  { << <<"/", "a">> >>,
    << <<"/", "a">>, <<"/", "r">> >>,
    << <<"/", "a", "/", "f">> >>,
    << <<"/", "a">>, <<"/", "a", "/", "f">> >>,
    << <<"/", "a", "/", "l">>, <<"/", "a">> >>,
    << <<"/", "b", "/", "s">> >>,
    << <<"/", "a">>, <<"/", "b", "/", "s">> >>,
    << <<"/", "a", "/", "f">>, <<"/", "b", "/", "s">> >> }

\* fs.stat(dir): the errno, or the kind of the node the path resolves to
statKind(fsys, dir) ==
  LET w == Walk(fsys, <<>>, Segments(dir), MaxLinks, FALSE)
  IN  IF w.err # "" THEN w.err ELSE NodeAt(fsys, w.path).t

\* a startup check that lets every root pass
rootAccepted_Any(seen) == TRUE

\* the callback of a root goes on to its end: fs.stat did not throw and
\* stats.isDirectory() is true
rootAccepted(seen) == seen = "dir"

Starting(srv, dirs) ==
  [srv |-> srv, pc |-> "checking", seen |-> [i \in DOMAIN dirs |-> ""],
   handled |-> 0]

\* fs.stat of one root has answered.  The main server awaits logger.error
\* before process.exit(1); the standalone server exits at once.
StartupStat(i) ==
  /\ boot.pc = "checking" /\ boot.seen[i] = ""
  /\ LET k == statKind(fs, config.allowedDirectories[i])
         checked == [boot EXCEPT !.seen[i] = k]
     IN  boot' = IF rootAccepted(k) \/ boot.srv = "main" THEN checked
                 ELSE [checked EXCEPT !.pc = "exited"]
  /\ UNCHANGED <<config, cands, fs, cache, timers, call, text, edit, multi, move,
               mk, exec, pv, load>>

\* process.exit(1) after logger.error has written the message
StartupExit ==
  /\ boot.pc = "checking"
  /\ \E i \in DOMAIN boot.seen : boot.seen[i] # "" /\ ~rootAccepted(boot.seen[i])
  /\ boot' = [boot EXCEPT !.pc = "exited"]
  /\ UNCHANGED <<config, cands, fs, cache, timers, call, text, edit, multi, move,
               mk, exec, pv, load>>

\* Promise.all has resolved: every callback went to its end; the server is
\* built and server.connect(transport) is called
StartupConnect ==
  /\ boot.pc = "checking"
  /\ \A i \in DOMAIN boot.seen : boot.seen[i] # "" /\ rootAccepted(boot.seen[i])
  /\ boot' = [boot EXCEPT !.pc = "connected"]
  /\ UNCHANGED <<config, cands, fs, cache, timers, call, text, edit, multi, move,
               mk, exec, pv, load>>

\* the handler of CallToolRequestSchema runs for a request of the transport
HandleRequest ==
  /\ boot.pc = "connected" /\ boot.handled < MaxRequests
  /\ boot' = [boot EXCEPT !.handled = boot.handled + 1]
  /\ UNCHANGED <<config, cands, fs, cache, timers, call, text, edit, multi, move,
               mk, exec, pv, load>>

InitStartup ==
  /\ config \in [allowedDirectories : StartRootLists,
                 security : {[allowSymlinks |-> TRUE, validateRealPath |-> TRUE]}]
  /\ cands = {}
  /\ fs = InitFs
  /\ cache = <<>>
  /\ timers = <<>>
  /\ call = Idle
  /\ boot \in {Starting(srv, config.allowedDirectories) : srv \in {"main", "standalone"}}
  /\ text = NoText
  /\ edit = NoEdit
  /\ multi = NoMulti
  /\ move = NoMove
  /\ mk = NoMk
  /\ exec = NoExec
  /\ pv = NoPv
  /\ load = NoLoad

NextStartup ==
  \/ \E i \in DOMAIN boot.seen : StartupStat(i)
  \/ StartupExit
  \/ StartupConnect
  \/ HandleRequest
  \/ \E n \in MutableNodes : \E k \in KindsOf(n) : External(n, k)

SpecStartup == InitStartup /\ [][NextStartup]_vars

\* C11: a tool request is handled only after the transport was connected,
\* and the transport is connected only when fs.stat found every configured
\* root an existing directory; once a root was found missing or not a
\* directory the server never connects and no handler runs.
C11_NoRequestUnlessEveryRootWasDirectory ==
  /\ boot.handled > 0 => boot.pc = "connected"
  /\ boot.pc = "connected" => \A i \in DOMAIN boot.seen : boot.seen[i] = "dir"
  /\ (\E i \in DOMAIN boot.seen : boot.seen[i] \notin {"", "dir"})
       => boot.pc # "connected" /\ boot.handled = 0

\* a request was handled by a server started with two roots
C11_Witness == boot.handled > 0 /\ Len(boot.seen) = 2

\* ------------------------------------------------------------------------
\* editFile and applyFileEdits: the edits on the text of a file
\* ------------------------------------------------------------------------

NL == "\n"
CR == "\r"
SP == " "

\* a character that the class \s of a regular expression matches
IsSpace(ch) == ch \in {SP, CR, NL, "\t"}

\* String.prototype.split('\n'): at least one line, the last one after the
\* last line feed
RECURSIVE SplitLinesFrom(_, _, _)
SplitLinesFrom(str, i, cur) ==
  IF i > Len(str) THEN <<cur>>
  ELSE IF str[i] = NL THEN <<cur>> \o SplitLinesFrom(str, i + 1, <<>>)
  ELSE SplitLinesFrom(str, i + 1, Append(cur, str[i]))

splitLines(str) == SplitLinesFrom(str, 1, <<>>)

\* a join that puts CRLF between the lines
RECURSIVE joinLines_CrLf(_)
joinLines_CrLf(lines) ==
  IF lines = <<>> THEN <<>>
  ELSE IF Len(lines) = 1 THEN lines[1]
  ELSE lines[1] \o <<CR, NL>> \o joinLines_CrLf(Tail(lines))

\* Array.prototype.join('\n')
RECURSIVE joinLines(_)
joinLines(lines) ==
  IF lines = <<>> THEN <<>>
  ELSE IF Len(lines) = 1 THEN lines[1]
  ELSE lines[1] \o <<NL>> \o joinLines(Tail(lines))

\* str.replace(/\r\n/g, '\n')
RECURSIVE ReplaceCrLfFrom(_, _)
ReplaceCrLfFrom(str, i) ==
  IF i > Len(str) THEN <<>>
  ELSE IF str[i] = CR /\ i < Len(str) /\ str[i + 1] = NL
       THEN <<NL>> \o ReplaceCrLfFrom(str, i + 2)
  ELSE <<str[i]>> \o ReplaceCrLfFrom(str, i + 1)

replaceCrLf(str) == ReplaceCrLfFrom(str, 1)

\* line.match(/^\s*/)?.[0] || '': the leading white space of a line
RECURSIVE IndentFrom(_, _)
IndentFrom(line, i) ==
  IF i > Len(line) \/ ~IsSpace(line[i]) THEN <<>>
  ELSE <<line[i]>> \o IndentFrom(line, i + 1)

indentOf(line) == IndentFrom(line, 1)

\* String.prototype.trimStart
trimStart(line) == Slice(line, Len(indentOf(line)))

\* ' '.repeat(n)
repeatSpace(n) == [i \in 1..n |-> SP]

\* the smallest offset i (counted from 0) at which
\* contentLines.slice(i, i + oldLines.length).join('\n') === normalizedOld,
\* or -1 when the loop ends without a match
RECURSIVE FindMatchFrom(_, _, _, _)
FindMatchFrom(contentLines, oldLines, normalizedOld, i) ==
  IF i > Len(contentLines) - Len(oldLines) THEN -1
  ELSE IF joinLines(SubSeq(contentLines, i + 1, i + Len(oldLines))) = normalizedOld
       THEN i
  ELSE FindMatchFrom(contentLines, oldLines, normalizedOld, i + 1)

\* a search that takes the match at the highest line offset
findMatch_Last(contentLines, oldLines, normalizedOld) ==
  LET found == {i \in 0..(Len(contentLines) - Len(oldLines)) :
                  joinLines(SubSeq(contentLines, i + 1, i + Len(oldLines)))
                    = normalizedOld}
  IN  IF found = {} THEN -1
      ELSE CHOOSE i \in found : \A k \in found : k <= i

findMatch(contentLines, oldLines, normalizedOld) ==
  FindMatchFrom(contentLines, oldLines, normalizedOld, 0)

\* the callback of normalizedNew.split('\n').map: line j (counted from 0)
\* of the replacement
newLine(originalIndent, oldLines, line, j) ==
  IF j = 0 THEN originalIndent \o trimStart(line)
  ELSE LET oldIndent == IF j < Len(oldLines) THEN indentOf(oldLines[j + 1]) ELSE <<>>
           newIndent == indentOf(line)
           relativeIndent == Len(newIndent) - Len(oldIndent)
       IN  IF oldIndent # <<>> /\ newIndent # <<>>
           THEN originalIndent
                  \o repeatSpace(IF relativeIndent > 0 THEN relativeIndent ELSE 0)
                  \o trimStart(line)
           ELSE line

\* one turn of the loop over args.edits: the text after the edit, or
\* "empty" for the throw of oldLines.length === 0 and "nomatch" for the
\* throw of !matchFound
applyEdit(modifiedContent, e) ==
  LET contentLines == splitLines(modifiedContent)
      normalizedOld == replaceCrLf(e.oldText)
      normalizedNew == replaceCrLf(e.newText)
      oldLines == splitLines(normalizedOld)
      i == findMatch(contentLines, oldLines, normalizedOld)
      originalIndent == indentOf(contentLines[i + 1])
      typed == splitLines(normalizedNew)
      newLines == [j \in 1..Len(typed) |->
                     newLine(originalIndent, oldLines, typed[j], j - 1)]
      spliced == SubSeq(contentLines, 1, i)
                   \o newLines
                   \o SubSeq(contentLines, i + Len(oldLines) + 1, Len(contentLines))
  IN  IF Len(oldLines) = 0 THEN [err |-> "empty", content |-> modifiedContent]
      ELSE IF i = -1 THEN [err |-> "nomatch", content |-> modifiedContent]
      ELSE [err |-> "", content |-> joinLines(spliced)]

\* a loop that takes the edits from the last one to edit k
RECURSIVE ApplyFrom_Reversed(_, _, _)
ApplyFrom_Reversed(modifiedContent, edits, k) ==
  IF k > Len(edits) THEN [err |-> "", content |-> modifiedContent]
  ELSE LET later == ApplyFrom_Reversed(modifiedContent, edits, k + 1)
       IN  IF later.err # "" THEN later
           ELSE applyEdit(later.content, edits[k])

\* the loop over args.edits from edit k on
RECURSIVE ApplyFrom(_, _, _)
ApplyFrom(modifiedContent, edits, k) ==
  IF k > Len(edits) THEN [err |-> "", content |-> modifiedContent]
  ELSE LET one == applyEdit(modifiedContent, edits[k])
       IN  IF one.err # "" THEN one
           ELSE ApplyFrom(one.content, edits, k + 1)

applyEdits(content, edits) == ApplyFrom(content, edits, 1)

\* the lines two sequences of lines have in common at their heads
RECURSIVE CommonHead(_, _)
CommonHead(xs, ys) ==
  IF xs = <<>> \/ ys = <<>> \/ Head(xs) # Head(ys) THEN 0
  ELSE 1 + CommonHead(Tail(xs), Tail(ys))

Reverse(xs) == [i \in 1..Len(xs) |-> xs[Len(xs) + 1 - i]]

\* createTwoFilesPatch(filePath, filePath, original, modified, ...): the
\* header names the file; the hunk holds the lines to delete and the lines
\* to add between the lines both texts share at their heads and tails, and
\* there is no hunk when the texts are equal
createTwoFilesPatch(filePath, originalContent, modifiedContent) ==
  LET old == splitLines(originalContent)
      new == splitLines(modifiedContent)
      h == CommonHead(old, new)
      restOld == SubSeq(old, h + 1, Len(old))
      restNew == SubSeq(new, h + 1, Len(new))
      t == CommonHead(Reverse(restOld), Reverse(restNew))
  IN  [file |-> filePath,
       at |-> IF originalContent = modifiedContent THEN 0 ELSE h + 1,
       del |-> SubSeq(restOld, 1, Len(restOld) - t),
       add |-> SubSeq(restNew, 1, Len(restNew) - t)]

\* createUnifiedDiff: the patch in a fence of backticks; no text of the
\* model holds a backtick, so the fence has three
createUnifiedDiff(originalContent, modifiedContent, filePath) ==
  [numBackticks |-> 3, msg |-> "",
   diff |-> createTwoFilesPatch(filePath, originalContent, modifiedContent)]

MsgNoChanges == "No changes made - all edit patterns were empty or not found"
MsgEmptyOldText == "Edit operation contains empty oldText"
MsgNoMatch == "Could not find exact match for edit"

\* a returned string that is a plain message, and no returned string
NoPatch == [file |-> <<>>, at |-> 0, del |-> <<>>, add |-> <<>>]
Message(msg) == [numBackticks |-> 0, msg |-> msg, diff |-> NoPatch]

\* what an edit_file call gives back
EditReturns(out, write, content) ==
  [kind |-> "return", code |-> "", msg |-> "", out |-> out, write |-> write,
   content |-> content]
EditThrows(code, msg) ==
  [kind |-> "throw", code |-> code, msg |-> msg, out |-> Message(""), write |-> FALSE,
   content |-> <<>>]

\* an editFile that writes the text it has reached when an edit fails
editFile_WritesPartial(content, edits, dryRun, validPath) ==
  LET done == applyEdits(content, edits)
  IN  IF done.err # ""
      THEN [EditThrows("Error", MsgNoMatch) EXCEPT !.write = TRUE,
                                                   !.content = done.content]
      ELSE EditReturns(createUnifiedDiff(content, done.content, validPath),
                       ~dryRun, done.content)

\* an editFile that writes in a dry run too
editFile_DryRunWrites(content, edits, dryRun, validPath) ==
  LET done == applyEdits(content, edits)
  IN  IF done.err = "empty" THEN EditThrows("INVALID_ARGS", MsgEmptyOldText)
      ELSE IF done.err = "nomatch" THEN EditThrows("Error", MsgNoMatch)
      ELSE IF Len(edits) = 0 THEN EditReturns(Message(MsgNoChanges), FALSE, content)
      ELSE EditReturns(createUnifiedDiff(content, done.content, validPath),
                       TRUE, done.content)

\* editFile from the text that fs.readFile(validPath) gave: the loop over
\* the edits, the early return, the diff and the write
editFile(content, edits, dryRun, validPath) ==
  LET done == applyEdits(content, edits)
      appliedAnyEdit == Len(edits) > 0
  IN  IF done.err = "empty" THEN EditThrows("INVALID_ARGS", MsgEmptyOldText)
      ELSE IF done.err = "nomatch" THEN EditThrows("Error", MsgNoMatch)
      ELSE IF ~appliedAnyEdit THEN EditReturns(Message(MsgNoChanges), FALSE, content)
      ELSE EditReturns(createUnifiedDiff(content, done.content, validPath),
                       ~dryRun, done.content)

\* applyFileEdits of the standalone server: no early return, and both throws
\* are plain Errors
applyFileEdits(content, edits, dryRun, filePath) ==
  LET done == applyEdits(content, edits)
  IN  IF done.err = "empty" THEN EditThrows("Error", MsgEmptyOldText)
      ELSE IF done.err = "nomatch" THEN EditThrows("Error", MsgNoMatch)
      ELSE EditReturns(createUnifiedDiff(content, done.content, filePath),
                       ~dryRun, done.content)

\* validatePath of the standalone server as a whole, on a filesystem that
\* does not change during the call
standaloneValidatePath(cfg, fsys, requestedPath) ==
  LET lexical == standaloneLexical(cfg, requestedPath)
      real == standaloneReal(cfg, fsys, lexical.path)
  IN  IF lexical.kind # "await" THEN lexical
      ELSE IF real.kind # "await" THEN real
      ELSE standaloneParent(cfg, fsys, lexical.path)

\* edits of one edit_file call
MaxEdits == 2

\* characters of a file; a call that would make the file longer is not
\* followed
MaxDocLen == 4

Edit(oldText, newText) == [oldText |-> oldText, newText |-> newText]

\* the edits a client sends: plain replacements, a replacement by the same
\* text, an empty oldText, an indented block, an oldText with CRLF, and
\* replacements that add and remove leading white space
EditOps ==
  { Edit(<<"x">>, <<"y">>),
    Edit(<<"y">>, <<"x">>),
    Edit(<<"x">>, <<"x">>),
    Edit(<<>>, <<"y">>),
    Edit(<<"x", NL, SP, "y">>, <<"y", NL, SP, "x">>),
    Edit(<<"x", CR, NL, SP, "y">>, <<"y">>),
    Edit(<<"y">>, <<SP, "y">>),
    Edit(<<SP, "y">>, <<"y">>) }

EditLists == UNION {[1..n -> EditOps] : n \in 0..MaxEdits}

\* the texts of the file /a/f before the call, which is the one edit_file
\* call of a run, with or without the path in the validation cache: empty,
\* one line, the same line twice, two lines, an indented second line, and a
\* line that ends in CRLF
InitDocs ==
  { <<>>,
    <<"x">>,
    <<"x", NL, "x">>,
    <<"y", NL, "x">>,
    <<"z", NL, "x">>,
    <<"x", NL, SP, "y">>,
    <<"x", CR, NL>> }

EditDone(srv, edits, dryRun, validPath, read, before, res) ==
  [pc |-> "done", srv |-> srv, edits |-> edits, dryRun |-> dryRun,
   valid |-> validPath, read |-> read, before |-> before,
   kind |-> res.kind, code |-> res.code, msg |-> res.msg,
   out |-> res.out, write |-> res.write, content |-> res.content]

\* the read of the file and the edits, and fs.writeFile(validPath,
\* modifiedContent) when the result asks for it
EditOnDisk(srv, edits, dryRun, validPath, res) ==
  LET rd == OpenRead(fs, validPath)
      wr == OpenWrite(fs, validPath)
  IN  IF rd.err # ""
      THEN /\ edit' = EditDone(srv, edits, dryRun, validPath, FALSE, <<>>,
                                EditThrows(rd.err, ""))
           /\ UNCHANGED <<fs, text>>
      ELSE /\ Len(res.content) <= MaxDocLen
           /\ edit' = EditDone(srv, edits, dryRun, validPath, TRUE, text[rd.path], res)
           /\ IF res.write /\ wr.err = ""
              THEN /\ text' = [text EXCEPT ![wr.path] = res.content]
                   /\ fs' = Put(fs, wr.path, File)
              ELSE UNCHANGED <<fs, text>>

\* the handler of edit_file of the server: validatePath, with the store of
\* the validated path in the cache, and editFile
EditFile(c, edits, dryRun) ==
  /\ edit.pc = "idle"
  /\ Len(timers) < MaxTimers
  /\ LET lexical == validateLexical(config, cache, c)
         v == validatePath(config, fs, cache, c)
         rd == OpenRead(fs, v.path)
     IN  /\ IF v.kind = "throw"
            THEN /\ edit' = EditDone("main", edits, dryRun, <<>>, FALSE, <<>>,
                                      EditThrows(v.code, v.msg))
                 /\ UNCHANGED <<fs, text>>
            ELSE EditOnDisk("main", edits, dryRun, v.path,
                            editFile(text[rd.path], edits, dryRun, v.path))
         /\ IF v.kind = "return" /\ lexical.kind # "return"
            THEN /\ cache' = CacheSet(cache, c, v.path)
                 /\ timers' = Append(timers, c)
            ELSE UNCHANGED <<cache, timers>>
  /\ UNCHANGED <<config, cands, call, boot, multi, move,
               mk, exec, pv, load>>

\* the handler of edit_file of the standalone server: validatePath and
\* applyFileEdits
ApplyFileEdits(c, edits, dryRun) ==
  /\ edit.pc = "idle"
  /\ LET v == standaloneValidatePath(config, fs, c)
         rd == OpenRead(fs, v.path)
     IN  IF v.kind = "throw"
         THEN /\ edit' = EditDone("standalone", edits, dryRun, <<>>, FALSE, <<>>,
                                  EditThrows(v.code, v.msg))
              /\ UNCHANGED <<fs, text>>
         ELSE EditOnDisk("standalone", edits, dryRun, v.path,
                         applyFileEdits(text[rd.path], edits, dryRun, v.path))
  /\ UNCHANGED <<config, cands, cache, timers, call, boot, multi, move,
               mk, exec, pv, load>>

InitEdit ==
  /\ config = [allowedDirectories |-> << <<"/", "a">> >>,
               security |-> [allowSymlinks |-> TRUE, validateRealPath |-> TRUE]]
  /\ fs = InitFs
  /\ \E c \in {<<"/", "a", "/", "f">>, <<"/", "b", "/", "s">>}, warm \in BOOLEAN :
        LET v == validatePath(config, InitFs, <<>>, c)
        IN  /\ cands = {c}
            /\ IF warm /\ v.kind = "return"
               THEN cache = CacheSet(<<>>, c, v.path) /\ timers = <<c>>
               ELSE cache = <<>> /\ timers = <<>>
  /\ call = Idle
  /\ boot = Connected(config.allowedDirectories)
  /\ text \in {[NoText EXCEPT ![<<a, f>>] = doc] : doc \in InitDocs}
  /\ edit = NoEdit
  /\ multi = NoMulti
  /\ move = NoMove
  /\ mk = NoMk
  /\ exec = NoExec
  /\ pv = NoPv
  /\ load = NoLoad

NextEdit ==
  \/ \E c \in cands, edits \in EditLists, dryRun \in BOOLEAN : EditFile(c, edits, dryRun)
  \/ \E c \in cands, edits \in EditLists, dryRun \in BOOLEAN : ApplyFileEdits(c, edits, dryRun)
  \/ TimerFire

SpecEdit == InitEdit /\ [][NextEdit]_vars

\* ------------------------------------------------------------------------
\* Vocabulary of the properties of edit_file
\* ------------------------------------------------------------------------

\* an edit_file call has read the file and run its edits
Edited == edit.pc = "done" /\ edit.read

\* the text of the edited file on disk
OnDisk == text[OpenRead(fs, edit.valid).path]

\* the lines of oldLines stand in docLines from offset i (counted from 0) on
MatchesAt(docLines, oldLines, i) ==
  /\ i + Len(oldLines) <= Len(docLines)
  /\ SubSeq(docLines, i + 1, i + Len(oldLines)) = oldLines

\* oldText matches at no line offset of the document
Unmatched(doc, oldText) ==
  LET docLines == splitLines(doc)
      oldLines == splitLines(replaceCrLf(oldText))
  IN  \A i \in 0..Len(docLines) : ~MatchesAt(docLines, oldLines, i)

\* the document that edit k of the call meets: the text after the edits
\* before it
CurrentAt(k) == applyEdits(edit.before, SubSeq(edit.edits, 1, k - 1))

\* C12: when an edit of the call matches at no line offset of the document
\* it meets, the call fails with the error of the missing match and the
\* file on disk is the text that was read, also when earlier edits of the
\* call had matched.
C12_UnmatchedEditFailsAndLeavesFile ==
  (Edited /\ \E k \in DOMAIN edit.edits :
                CurrentAt(k).err = "" /\ Unmatched(CurrentAt(k).content, edit.edits[k].oldText))
    => /\ edit.kind = "throw"
       /\ edit.msg = MsgNoMatch
       /\ OnDisk = edit.before

\* the second edit of a call matched nowhere after the first one had matched
\* and changed the text
C12_Witness ==
  /\ Edited /\ ~edit.dryRun /\ Len(edit.edits) = 2
  /\ CurrentAt(2).err = "" /\ CurrentAt(2).content # edit.before
  /\ Unmatched(CurrentAt(2).content, edit.edits[2].oldText)

\* the result of the same call with dryRun false
WetRun ==
  IF edit.srv = "main" THEN editFile(edit.before, edit.edits, FALSE, edit.valid)
  ELSE applyFileEdits(edit.before, edit.edits, FALSE, edit.valid)

\* C13: a call with dryRun true writes nothing, whatever the number of its
\* edits, and returns the text that the same call with dryRun false returns.
C13_DryRunWritesNothingAndReturnsSameDiff ==
  (Edited /\ edit.dryRun)
    => /\ ~edit.write
       /\ OnDisk = edit.before
       /\ edit.kind = WetRun.kind
       /\ edit.out = WetRun.out
       /\ edit.msg = WetRun.msg

\* a dry run of two edits whose diff is not empty and that would have
\* changed the file
C13_Witness ==
  /\ Edited /\ edit.dryRun /\ Len(edit.edits) = 2 /\ edit.kind = "return"
  /\ WetRun.write /\ WetRun.content # edit.before
  /\ edit.out = createUnifiedDiff(edit.before, WetRun.content, edit.valid)

\* C14: an edit with an empty oldText that the loop of the server reaches is
\* rejected with InvalidArguments, and the file on disk is the text that
\* was read.
C14_EmptyOldTextIsRejected ==
  (Edited /\ edit.srv = "main"
     /\ \E k \in DOMAIN edit.edits :
           CurrentAt(k).err = "" /\ edit.edits[k].oldText = <<>>)
    => /\ edit.kind = "throw"
       /\ edit.code = "INVALID_ARGS"
       /\ OnDisk = edit.before

\* oldText equals a block of lines of the document once CRLF is LF in both
LfMatches(doc, oldText) ==
  LET docLines == splitLines(replaceCrLf(doc))
      oldLines == splitLines(replaceCrLf(oldText))
  IN  \E i \in 0..Len(docLines) : MatchesAt(docLines, oldLines, i)

\* C15: a single edit whose oldText equals a block of lines of the file,
\* once CRLF is converted to LF in both, is found and replaced, whatever
\* the line endings of the file.
C15_MatchingIgnoresLineEndings ==
  (Edited /\ Len(edit.edits) = 1 /\ LfMatches(edit.before, edit.edits[1].oldText))
    => edit.kind = "return"

\* the least offset (counted from 0) at which oldText matches the document
FirstOffset(doc, oldText) ==
  LET docLines == splitLines(doc)
      oldLines == splitLines(replaceCrLf(oldText))
  IN  CHOOSE i \in 0..Len(docLines) :
        /\ MatchesAt(docLines, oldLines, i)
        /\ \A k \in 0..(i - 1) : ~MatchesAt(docLines, oldLines, k)

\* a block of two or more lines and a replacement whose lines carry the
\* leading white space of the lines they replace
SameIndents(oldText, newText) ==
  LET oldLines == splitLines(replaceCrLf(oldText))
      typed == splitLines(replaceCrLf(newText))
  IN  /\ Len(oldLines) >= 2
      /\ Len(typed) = Len(oldLines)
      /\ \A j \in DOMAIN typed : indentOf(typed[j]) = indentOf(oldLines[j])

\* C16: after a single edit that replaces a block of several lines by lines
\* with the same leading white space, every replacement line of the
\* resulting text is deeper than the first line of the block by the amount
\* it is deeper in newText.
C16_BlockKeepsRelativeIndentation ==
  (Edited /\ Len(edit.edits) = 1 /\ edit.kind = "return"
     /\ SameIndents(edit.edits[1].oldText, edit.edits[1].newText))
    => LET i == FirstOffset(edit.before, edit.edits[1].oldText)
           typed == splitLines(replaceCrLf(edit.edits[1].newText))
           result == splitLines(edit.content)
       IN  \A j \in DOMAIN typed :
             Len(indentOf(result[i + j])) - Len(indentOf(result[i + 1]))
               = Len(indentOf(typed[j])) - Len(indentOf(typed[1]))

\* no line of the text begins with white space
NoIndent(txt) ==
  \A j \in DOMAIN splitLines(replaceCrLf(txt)) :
     indentOf(splitLines(replaceCrLf(txt))[j]) = <<>>

\* the call applies {old: A, new: B} and then {old: B, new: A} to the
\* result, A matches the text that was read, and neither text has a line
\* that begins with white space
RoundTrip ==
  /\ Edited /\ Len(edit.edits) = 2
  /\ edit.edits[2] = Edit(edit.edits[1].newText, edit.edits[1].oldText)
  /\ ~Unmatched(edit.before, edit.edits[1].oldText)
  /\ NoIndent(edit.edits[1].oldText) /\ NoIndent(edit.edits[1].newText)

\* C17 as stated: the edit {old: A, new: B} followed by {old: B, new: A}
\* restores every document in which A matches, for texts without
\* indentation.
C17_RoundTripRestores ==
  RoundTrip => edit.kind = "return" /\ edit.content = edit.before

\* B matches the text after the first edit at no line offset below the one
\* where the first edit put it
InsertedIsFirst ==
  LET i == FirstOffset(edit.before, edit.edits[1].oldText)
      midLines == splitLines(CurrentAt(2).content)
      newLines == splitLines(replaceCrLf(edit.edits[1].newText))
  IN  \A k \in 0..(i - 1) : ~MatchesAt(midLines, newLines, k)

\* C17 amended: the round trip restores the document when, besides, B does
\* not match the edited text at a line offset lower than the one where it
\* was inserted.
C17_RoundTripRestoresWhenInsertedIsFirst ==
  (RoundTrip /\ InsertedIsFirst) => edit.kind = "return" /\ edit.content = edit.before

\* a round trip on a text of two lines that changed the second line and
\* wrote the restored text
C17_Witness ==
  /\ RoundTrip /\ InsertedIsFirst
  /\ FirstOffset(edit.before, edit.edits[1].oldText) = 1
  /\ CurrentAt(2).content # edit.before
  /\ edit.write /\ OnDisk = edit.before

\* C18: a call of the server whose edits leave the text as it was read
\* reports that no changes were made instead of returning a diff.
C18_UnchangedTextIsReported ==
  (Edited /\ edit.srv = "main" /\ edit.kind = "return" /\ edit.content = edit.before)
    => edit.out = Message(MsgNoChanges)

\* ------------------------------------------------------------------------
\* readMultipleFiles
\* ------------------------------------------------------------------------

\* paths of one read_multiple_files call
MaxPaths == 2

\* the property name that a plain object inherits as an accessor from
\* Object.prototype
ProtoKey == <<"_", "_", "p", "r", "o", "t", "o", "_", "_">>

\* the paths a client asks for: a file of the root, a path outside the
\* roots, and a relative path
PathMenu ==
  { <<"/", "a", "/", "f">>,
    <<"/", "b", "/", "s">>,
    ProtoKey }

PathLists == UNION {[1..n -> PathMenu] : n \in 0..MaxPaths}

\* an entry of results: the content read, or the captured error
Content(content) == [kind |-> "content", content |-> content, code |-> ""]
Captured(code) == [kind |-> "error", content |-> <<>>, code |-> code]
NoEntry == [kind |-> "", content |-> <<>>, code |-> ""]

\* results[filePath] = value on the object made by {}: the own properties
\* after the assignment, in the order of their creation.  The key __proto__
\* reaches the setter of Object.prototype, which makes no own property.
objectSet(obj, key, value) ==
  IF key = ProtoKey THEN obj ELSE MapSet(obj, key, value)

\* the callback of args.paths.map for path i has reached its end
TaskEnds(m, i, entry) ==
  [m EXCEPT !.tpc[i] = "end", !.outcome[i] = entry,
            !.results = objectSet(@, m.paths[i], entry)]

\* the callbacks run up to their first filesystem call, in the order of
\* the paths: the cache lookup and the check of the normalized path
RECURSIVE MultiStart(_, _)
MultiStart(m, i) ==
  IF i > Len(m.paths) THEN m
  ELSE LET out == validateLexical(config, cache, m.paths[i])
       IN  MultiStart(
             CASE out.kind = "return" ->
                    [m EXCEPT !.tpc[i] = "stat", !.valid[i] = out.path]
               [] out.kind = "throw" -> TaskEnds(m, i, Captured(out.code))
               [] out.kind = "await" -> [m EXCEPT !.tpc[i] = "real"],
             i + 1)

\* the handler of read_multiple_files calls readMultipleFiles(args, config)
MultiCall(paths) ==
  /\ multi.pc = "idle"
  /\ multi' = MultiStart([pc |-> "running", paths |-> paths,
                          tpc |-> [i \in DOMAIN paths |-> ""],
                          valid |-> [i \in DOMAIN paths |-> <<>>],
                          outcome |-> [i \in DOMAIN paths |-> NoEntry],
                          results |-> <<>>], 1)
  /\ UNCHANGED <<config, cands, fs, cache, timers, call, boot, text, edit, move,
               mk, exec, pv, load>>

\* validatePath of path i has returned validPath: the store in the cache
\* and the way on to validateFileSize
MultiValidated(i, validPath) ==
  /\ multi' = [multi EXCEPT !.tpc[i] = "stat", !.valid[i] = validPath]
  /\ cache' = CacheSet(cache, multi.paths[i], validPath)
  /\ timers' = Append(timers, multi.paths[i])

\* fs.realpath(absolute) of path i has answered
MultiReal(i) ==
  /\ multi.pc = "running" /\ multi.tpc[i] = "real"
  /\ LET out == validateReal(config, fs, Absolute(multi.paths[i]))
     IN  CASE out.kind = "return" -> MultiValidated(i, out.path)
           [] out.kind = "throw" ->
                /\ multi' = TaskEnds(multi, i, Captured(out.code))
                /\ UNCHANGED <<cache, timers>>
           [] out.kind = "await" ->
                /\ multi' = [multi EXCEPT !.tpc[i] = "parent"]
                /\ UNCHANGED <<cache, timers>>
  /\ UNCHANGED <<config, cands, fs, call, boot, text, edit, move,
               mk, exec, pv, load>>

\* fs.realpath(parentDir) of path i has answered
MultiParent(i) ==
  /\ multi.pc = "running" /\ multi.tpc[i] = "parent"
  /\ LET out == validateParent(config, fs, Absolute(multi.paths[i]))
     IN  CASE out.kind = "return" -> MultiValidated(i, out.path)
           [] out.kind = "throw" ->
                /\ multi' = TaskEnds(multi, i, Captured(out.code))
                /\ UNCHANGED <<cache, timers>>
  /\ UNCHANGED <<config, cands, fs, call, boot, text, edit, move,
               mk, exec, pv, load>>

\* validateFileSize(validPath, maxFileSize) of path i: fs.stat has answered,
\* and the size is within the limit or not
MultiStat(i) ==
  /\ multi.pc = "running" /\ multi.tpc[i] = "stat"
  /\ LET w == Walk(fs, <<>>, Segments(multi.valid[i]), MaxLinks, FALSE)
     IN  IF w.err # "" THEN multi' = TaskEnds(multi, i, Captured(w.err))
         ELSE multi' \in {[multi EXCEPT !.tpc[i] = "read"],
                          TaskEnds(multi, i, Captured("Error"))}
  /\ UNCHANGED <<config, cands, fs, cache, timers, call, boot, text, edit, move,
               mk, exec, pv, load>>

\* fs.readFile(validPath, args.encoding) of path i has answered
MultiRead(i) ==
  /\ multi.pc = "running" /\ multi.tpc[i] = "read"
  /\ LET w == OpenRead(fs, multi.valid[i])
     IN  multi' = TaskEnds(multi, i, IF w.err # "" THEN Captured(w.err)
                                     ELSE Content(text[w.path]))
  /\ UNCHANGED <<config, cands, fs, cache, timers, call, boot, text, edit, move,
               mk, exec, pv, load>>

\* Promise.all has resolved: readMultipleFiles returns results and the
\* handler formats Object.entries(results)
MultiReturn ==
  /\ multi.pc = "running"
  /\ \A i \in DOMAIN multi.paths : multi.tpc[i] = "end"
  /\ multi' = [multi EXCEPT !.pc = "done"]
  /\ UNCHANGED <<config, cands, fs, cache, timers, call, boot, text, edit, move,
               mk, exec, pv, load>>

\* the files of the runs of read_multiple_files hold different texts
MultiText ==
  [n \in MutableNodes |->
     IF n = <<a, f>> THEN <<"x">> ELSE IF n = <<ax, s>> THEN <<"y">> ELSE <<>>]

InitMulti ==
  /\ config = [allowedDirectories |-> << <<"/", "a">> >>,
               security |-> [allowSymlinks |-> TRUE, validateRealPath |-> TRUE]]
  /\ cands = {}
  /\ fs = InitFs
  /\ cache = <<>>
  /\ timers = <<>>
  /\ call = Idle
  /\ boot = Connected(config.allowedDirectories)
  /\ text = MultiText
  /\ edit = NoEdit
  /\ multi = NoMulti
  /\ move = NoMove
  /\ mk = NoMk
  /\ exec = NoExec
  /\ pv = NoPv
  /\ load = NoLoad

NextMulti ==
  \/ \E paths \in PathLists : MultiCall(paths)
  \/ \E i \in DOMAIN multi.paths : MultiReal(i)
  \/ \E i \in DOMAIN multi.paths : MultiParent(i)
  \/ \E i \in DOMAIN multi.paths : MultiStat(i)
  \/ \E i \in DOMAIN multi.paths : MultiRead(i)
  \/ MultiReturn
  \/ TimerFire
  \/ \E k \in KindsOf(<<a, f>>) : External(<<a, f>>, k)

SpecMulti == InitMulti /\ [][NextMulti]_vars

\* C19: when read_multiple_files has returned, the result holds for every
\* requested path one entry under that path, and the entry is what a
\* callback for that path ended with: the content read, or the captured
\* error.
C19_EveryPathHasItsEntry ==
  multi.pc = "done"
    => \A i \in DOMAIN multi.paths :
          /\ MapHas(multi.results, multi.paths[i])
          /\ \E k \in DOMAIN multi.paths :
                /\ multi.paths[k] = multi.paths[i]
                /\ MapGet(multi.results, multi.paths[i]) = multi.outcome[k]

\* ------------------------------------------------------------------------
\* move_file
\* ------------------------------------------------------------------------

\* the node that the last component of a path names: the parent directory
\* is resolved, the last component is not followed
EntryOf(fsys, p) ==
  LET segs == Segments(p)
      w == Walk(fsys, <<>>, SubSeq(segs, 1, Len(segs) - 1), MaxLinks, FALSE)
  IN  IF w.err # "" THEN w
      ELSE IF NodeAt(fsys, w.path).t # "dir" THEN Errno("ENOTDIR", w.path)
      ELSE Ok(Append(w.path, segs[Len(segs)]))

\* fs.rename(oldPath, newPath) of a file or a symlink: an existing file or
\* symlink at newPath is replaced
rename(fsys, txt, oldPath, newPath) ==
  LET from == EntryOf(fsys, oldPath)
      to == EntryOf(fsys, newPath)
      moved == NodeAt(fsys, from.path)
      same == [err |-> "", fs |-> fsys, text |-> txt]
  IN  IF from.err # "" THEN [same EXCEPT !.err = from.err]
      ELSE IF to.err # "" THEN [same EXCEPT !.err = to.err]
      ELSE IF moved.t = "absent" THEN [same EXCEPT !.err = "ENOENT"]
      ELSE IF from.path = to.path THEN same
      ELSE IF NodeAt(fsys, to.path).t = "dir" THEN [same EXCEPT !.err = "EISDIR"]
      ELSE [err |-> "",
            fs |-> [fsys EXCEPT ![to.path] = moved, ![from.path] = Absent],
            text |-> [txt EXCEPT ![to.path] = txt[from.path], ![from.path] = <<>>]]

\* the sources and destinations of the requests, which name two different
\* paths: two files of the root and a path outside the roots
MoveSources == {<<"/", "a", "/", "f">>, <<"/", "a", "/", "l">>}
MoveDestinations ==
  {<<"/", "a", "/", "f">>, <<"/", "a", "/", "l">>, <<"/", "b", "/", "s">>}

\* what the last component of the destination names, and its text
DestinationNow(fsys, txt, destination) ==
  LET e == EntryOf(fsys, Absolute(destination))
  IN  IF e.err # "" \/ e.path \notin DOMAIN fsys THEN [kind |-> Absent, text |-> <<>>]
      ELSE [kind |-> fsys[e.path], text |-> txt[e.path]]

\* validatePath(c, config) on the filesystem of the moment, with the store
\* of a path that did not come from the cache
MoveValidate(c, out) ==
  IF out.kind = "return" /\ validateLexical(config, cache, c).kind # "return"
  THEN /\ cache' = CacheSet(cache, c, out.path)
       /\ timers' = Append(timers, c)
  ELSE UNCHANGED <<cache, timers>>

MoveFails(code) == [move EXCEPT !.pc = "done", !.err = code]

\* the handler of move_file: validatePath(source)
MoveCall(source, destination) ==
  /\ move.pc = "idle"
  /\ LET out == validatePath(config, fs, cache, source)
         mv == [pc |-> "destination", source |-> source, destination |-> destination,
                validSourcePath |-> out.path, validDestPath |-> <<>>, err |-> "",
                was |-> [kind |-> Absent, text |-> <<>>],
                is |-> [kind |-> Absent, text |-> <<>>]]
     IN  /\ move' = IF out.kind = "throw" THEN [mv EXCEPT !.pc = "done", !.err = out.code]
                    ELSE mv
         /\ MoveValidate(source, out)
  /\ UNCHANGED <<config, cands, fs, call, boot, text, edit, multi,
               mk, exec, pv, load>>

\* validatePath(destination)
MoveDestination ==
  /\ move.pc = "destination"
  /\ LET out == validatePath(config, fs, cache, move.destination)
     IN  /\ move' = IF out.kind = "throw" THEN MoveFails(out.code)
                    ELSE [move EXCEPT !.pc = "mkdir", !.validDestPath = out.path]
         /\ MoveValidate(move.destination, out)
  /\ UNCHANGED <<config, cands, fs, call, boot, text, edit, multi,
               mk, exec, pv, load>>

\* fs.mkdir(path.dirname(validDestPath), {recursive: true})
MoveMkdir ==
  /\ move.pc = "mkdir"
  /\ LET m == mkdirRecursive(fs, pathDirname(move.validDestPath))
     IN  IF m.err # ""
         THEN move' = MoveFails(m.err) /\ fs' = fs
         ELSE move' = [move EXCEPT !.pc = "rename"] /\ fs' = m.fs
  /\ UNCHANGED <<config, cands, cache, timers, call, boot, text, edit, multi,
               mk, exec, pv, load>>

\* fs.rename(validSourcePath, validDestPath); what the destination of the
\* request names just before and just after is noted
MoveRename ==
  /\ move.pc = "rename"
  /\ LET rn == rename(fs, text, move.validSourcePath, move.validDestPath)
     IN  /\ fs' = rn.fs
         /\ text' = rn.text
         /\ move' = [move EXCEPT !.pc = "done", !.err = rn.err,
                                 !.was = DestinationNow(fs, text, move.destination),
                                 !.is = DestinationNow(rn.fs, rn.text, move.destination)]
  /\ UNCHANGED <<config, cands, cache, timers, call, boot, edit, multi,
               mk, exec, pv, load>>

\* the two files of the root hold different texts
MoveText ==
  [n \in MutableNodes |->
     IF n = <<a, f>> THEN <<"x">> ELSE IF n = <<a, l>> THEN <<"y">> ELSE <<>>]

InitMove ==
  /\ config = [allowedDirectories |-> << <<"/", "a">> >>,
               security |-> [allowSymlinks |-> TRUE, validateRealPath |-> TRUE]]
  /\ cands = {}
  /\ fs \in {[InitFs EXCEPT ![<<a, l>>] = k] : k \in {File, Absent}}
  /\ cache = <<>>
  /\ timers = <<>>
  /\ call = Idle
  /\ boot = Connected(config.allowedDirectories)
  /\ text = MoveText
  /\ edit = NoEdit
  /\ multi = NoMulti
  /\ move = NoMove
  /\ mk = NoMk
  /\ exec = NoExec
  /\ pv = NoPv
  /\ load = NoLoad

NextMove ==
  \/ \E source \in MoveSources :
        \E destination \in MoveDestinations \ {source} : MoveCall(source, destination)
  \/ MoveDestination
  \/ MoveMkdir
  \/ MoveRename
  \/ TimerFire
  \/ \E k \in KindsOf(<<a, l>>) : External(<<a, l>>, k)

SpecMove == InitMove /\ [][NextMove]_vars

\* C20: when the destination of a move_file call exists at the moment of
\* the rename, the call fails and the destination is what it was, with the
\* text it had.
C20_ExistingDestinationIsKept ==
  (move.pc = "done" /\ move.was.kind # Absent)
    => move.err # "" /\ move.is = move.was

\* ------------------------------------------------------------------------
\* create_directory
\* ------------------------------------------------------------------------

\* calls of create_directory followed in a run
MaxMkCalls == 2

\* the directory /a/n and the directory /a/n/m below it, both missing when
\* the server starts
MkNodes == {<<a, <<"n">>>>, <<a, <<"n">>, <<"m">>>>}

\* the paths of the requests: a directory whose parent exists, a nested
\* directory, an existing file, an existing root and a path outside the roots
MkPaths ==
  { <<"/", "a", "/", "n">>,
    <<"/", "a", "/", "n", "/", "m">>,
    <<"/", "a", "/", "f">>,
    <<"/", "a">>,
    <<"/", "b", "/", "n">> }

\* the handler of create_directory: validatePath(parsed.data.path, config),
\* or validatePath(parsed.data.path) of the standalone server.  What
\* fs.stat would say of the parent directory at this moment is noted.
MkCall(srv, path) ==
  /\ mk.pc \in {"idle", "done"} /\ mk.calls < MaxMkCalls
  /\ Len(timers) < MaxTimers
  /\ LET out == IF srv = "main" THEN validatePath(config, fs, cache, path)
                ELSE standaloneValidatePath(config, fs, path)
         c == [pc |-> "mkdir", calls |-> mk.calls + 1, srv |-> srv, path |-> path,
               parentWas |-> statKind(fs, pathDirname(Absolute(path))),
               validPath |-> IF out.kind = "return" THEN out.path ELSE <<>>,
               err |-> "", made |-> FALSE]
     IN  /\ mk' = IF out.kind = "throw" THEN [c EXCEPT !.pc = "done", !.err = out.code]
                  ELSE c
         /\ IF srv = "main" THEN MoveValidate(path, out)
            ELSE UNCHANGED <<cache, timers>>
  /\ UNCHANGED <<config, cands, fs, call, boot, text, edit, multi, move,
                 exec, pv, load>>

\* fs.mkdir(validPath, {recursive: true}), and the answer of the handler
MkMkdir ==
  /\ mk.pc = "mkdir"
  /\ LET m == mkdirRecursive(fs, mk.validPath)
     IN  /\ fs' = m.fs
         /\ mk' = [mk EXCEPT !.pc = "done", !.err = m.err,
                             !.made = statKind(m.fs, Absolute(mk.path)) = "dir"]
  /\ UNCHANGED <<config, cands, cache, timers, call, boot, text, edit, multi, move,
                 exec, pv, load>>

InitMkdir ==
  /\ config = [allowedDirectories |-> << <<"/", "a">> >>,
               security |-> [allowSymlinks |-> TRUE, validateRealPath |-> TRUE]]
  /\ cands = {}
  /\ fs = [n \in Nodes \cup MkNodes |-> IF n \in Nodes THEN InitFs[n] ELSE Absent]
  /\ cache = <<>>
  /\ timers = <<>>
  /\ call = Idle
  /\ boot = Connected(config.allowedDirectories)
  /\ text = NoText
  /\ edit = NoEdit
  /\ multi = NoMulti
  /\ move = NoMove
  /\ mk = [pc |-> "idle", calls |-> 0]
  /\ exec = NoExec
  /\ pv = NoPv
  /\ load = NoLoad

\* another process makes or removes the directory /a/n while it is empty
NextMkdir ==
  \/ \E srv \in {"main", "standalone"}, path \in MkPaths : MkCall(srv, path)
  \/ MkMkdir
  \/ TimerFire
  \/ \E k \in {Absent, Dir} :
        /\ fs[<<a, <<"n">>, <<"m">>>>] = Absent
        /\ External(<<a, <<"n">>>>, k)

SpecMkdir == InitMkdir /\ [][NextMkdir]_vars

\* C21: a create_directory call for a path inside an allowed root whose
\* parent directory did not exist when the call arrived succeeds, and at
\* its end every directory on the path exists.
C21_NestedDirectoriesAreCreated ==
  (/\ mk.pc = "done"
   /\ UnderRoot(Segments(Absolute(mk.path)))
   /\ mk.parentWas = "ENOENT")
    => mk.err = "" /\ mk.made

\* ------------------------------------------------------------------------
\* execute_command
\* ------------------------------------------------------------------------

\* calls of execute_command followed in a run
MaxExecCalls == 2

\* String.prototype.includes
includes(str, sub) ==
  \E i \in 0..(Len(str) - Len(sub)) : SubSeq(str, i + 1, i + Len(sub)) = sub

FORBIDDEN_COMMANDS ==
  << <<"r", "m", " ", "-", "r", "f">>,
     <<"r", "m", " ", "-", "r">>,
     <<"r", "m", "d", "i", "r">>,
     <<"d", "d">>,
     <<"m", "k", "f", "s">>,
     <<"f", "o", "r", "m", "a", "t">>,
     <<"w", "g", "e", "t">>,
     <<"c", "u", "r", "l", " ", "-", "O">>,
     <<"c", "u", "r", "l", " ", "-", "-", "o", "u", "t", "p", "u", "t">>,
     <<"c", "h", "m", "o", "d", " ", "7", "7", "7">>,
     <<"c", "h", "m", "o", "d", " ", "-", "R", " ", "7", "7", "7">>,
     <<"s", "u", "d", "o">>,
     <<"s", "u">> >>

\* the characters that SAFE_COMMAND_REGEX lets pass: [a-zA-Z0-9_\-./\s]
SafeChars ==
  { "a", "b", "c", "d", "e", "f", "g", "h", "i", "j", "k", "l", "m",
    "n", "o", "p", "q", "r", "s", "t", "u", "v", "w", "x", "y", "z",
    "A", "B", "C", "D", "E", "F", "G", "H", "I", "J", "K", "L", "M",
    "N", "O", "P", "Q", "R", "S", "T", "U", "V", "W", "X", "Y", "Z",
    "0", "1", "2", "3", "4", "5", "6", "7", "8", "9", "_", "-", ".",
    "/",
    SP, NL, CR, "\t" }

\* SAFE_COMMAND_REGEX.test(command): one safe character or more, and no other
SAFE_COMMAND_REGEX(command) ==
  /\ Len(command) > 0
  /\ \A i \in DOMAIN command : command[i] \in SafeChars

\* validateCommand: the code of the error it throws, or "" when it returns
validateCommand(command) ==
  IF \E i \in DOMAIN FORBIDDEN_COMMANDS : includes(command, FORBIDDEN_COMMANDS[i])
  THEN "FORBIDDEN_COMMAND"
  ELSE IF ~SAFE_COMMAND_REGEX(command) THEN "UNSAFE_COMMAND"
  ELSE ""

\* the commands of the requests: two that pass, one that holds a forbidden
\* word, one that holds "dd" inside a word, and one with a character that
\* the pattern refuses
Commands ==
  { <<"l", "s">>,
    <<"p", "w", "d">>,
    <<"s", "u", "d", "o", " ", "l", "s">>,
    <<"a", "d", "d", " ", "x">>,
    <<"l", "s", ";", "i", "d">> }

\* the workingDir of the requests: left out, the allowed directory /a, the
\* directory /b outside the roots, the symlink /r to /b, a regular file and
\* a missing path
WorkingDirs ==
  { <<>>,
    <<"/", "a">>,
    <<"/", "b">>,
    <<"/", "r">>,
    <<"/", "a", "/", "f">>,
    <<"/", "b", "/", "s">> }

\* executeCommand up to exec: validateCommand(args.command), then the
\* options with cwd: args.workingDir || process.cwd().  No statement reads
\* _config.
ExecCall(command, workingDir) ==
  /\ exec.pc \in {"idle", "done"} /\ exec.calls < MaxExecCalls
  /\ LET code == validateCommand(command)
         c == [pc |-> "exec", calls |-> exec.calls + 1, command |-> command,
               workingDir |-> workingDir,
               cwd |-> IF workingDir # <<>> THEN workingDir ELSE Cwd,
               err |-> "", ran |-> FALSE, ranIn |-> <<>>, exitCode |-> 0]
     IN  exec' = IF code # "" THEN [c EXCEPT !.pc = "done", !.err = code] ELSE c
  /\ UNCHANGED <<config, cands, fs, cache, timers, call, boot, text, edit, multi, move,
                 mk, pv, load>>

\* exec(args.command, options): the shell is started in options.cwd; a cwd
\* that is no directory makes the spawn fail, which the inner catch turns
\* into a result with exit code error.code || 1
ExecSpawn ==
  /\ exec.pc = "exec"
  /\ LET w == Walk(fs, <<>>, Segments(pathResolve(Cwd, exec.cwd)), MaxLinks, FALSE)
     IN  exec' = IF w.err = "" /\ NodeAt(fs, w.path).t = "dir"
                 THEN [exec EXCEPT !.pc = "running", !.ran = TRUE, !.ranIn = w.path]
                 ELSE [exec EXCEPT !.pc = "done", !.exitCode = 1]
  /\ UNCHANGED <<config, cands, fs, cache, timers, call, boot, text, edit, multi, move,
                 mk, pv, load>>

\* the child has ended, or was killed at the timeout: the handler answers
\* with the exit code
ExecExit(exitCode) ==
  /\ exec.pc = "running"
  /\ exec' = [exec EXCEPT !.pc = "done", !.exitCode = exitCode]
  /\ UNCHANGED <<config, cands, fs, cache, timers, call, boot, text, edit, multi, move,
                 mk, pv, load>>

InitExec ==
  /\ config \in [allowedDirectories : RootLists,
                 security : {[allowSymlinks |-> TRUE, validateRealPath |-> TRUE]}]
  /\ cands = {}
  /\ fs = InitFs
  /\ cache = <<>>
  /\ timers = <<>>
  /\ call = Idle
  /\ boot = Connected(config.allowedDirectories)
  /\ text = NoText
  /\ edit = NoEdit
  /\ multi = NoMulti
  /\ move = NoMove
  /\ mk = NoMk
  /\ exec = [pc |-> "idle", calls |-> 0]
  /\ pv = NoPv
  /\ load = NoLoad

NextExec ==
  \/ \E command \in Commands, workingDir \in WorkingDirs : ExecCall(command, workingDir)
  \/ ExecSpawn
  \/ \E exitCode \in {0, 1} : ExecExit(exitCode)

SpecExec == InitExec /\ [][NextExec]_vars

\* the workingDir of the call names a place outside every allowed
\* directory: neither the path as given nor the directory it resolves to is
\* an allowed directory or lies below one
OutsideWorkingDir ==
  /\ exec.pc # "idle" /\ exec.workingDir # <<>>
  /\ ~UnderRoot(Segments(pathResolve(Cwd, exec.workingDir)))
  /\ RealOf(exec.workingDir).err = "" => ~OnOrUnderRoot(RealOf(exec.workingDir).path)

\* C22: a call of execute_command whose workingDir lies outside every
\* allowed directory is rejected, and its command is not executed.
C22_CommandRunsOnlyInsideAllowedDirectories ==
  OutsideWorkingDir => ~exec.ran /\ (exec.pc = "done" => exec.err # "")

\* ------------------------------------------------------------------------
\* PathValidationCache under concurrent validations, with its clock
\* ------------------------------------------------------------------------

\* this.ttl, in ticks of the clock
TTL == 2

\* the ticks of the clock followed in a run
MaxTime == 3

\* validatePath calls in flight at one moment
MaxCalls == 2

\* pending expiry timers, the ones that the calls in flight may add included
MaxPending == 3

\* the candidate strings of the requests: the empty string, which resolves
\* to the working directory /a, a file, and a path that other processes
\* switch between missing and a symlink to that file
PvCands == {<<>>, <<"/", "a", "/", "f">>, <<"/", "a", "/", "l">>}

\* no insertion of a candidate yet
NeverIn == [at |-> -1, path |-> <<>>]

\* no call in a slot
NoCall == [pc |-> "idle", c |-> <<>>, absolute |-> <<>>]

\* no lookup of the cache yet
NoLookup ==
  [c |-> <<>>, seen |-> FALSE, hit |-> FALSE, path |-> <<>>, within |-> FALSE,
   expect |-> <<>>, expired |-> FALSE, age |-> 0]

\* nothing has happened to the cache yet
NoEvent ==
  [op |-> "", full |-> FALSE, gone |-> {}, oldest |-> {}, had |-> FALSE, age |-> 0]

\* the keys of the Map
Keys(m) == {m[i].k : i \in DOMAIN m}

\* a sequence of keys without the key k
RECURSIVE Without(_, _)
Without(ks, k) ==
  IF ks = <<>> THEN <<>>
  ELSE IF Head(ks) = k THEN Without(Tail(ks), k)
  ELSE <<Head(ks)>> \o Without(Tail(ks), k)

\* the keys present, in the order in which their entries entered the Map:
\* what is left of the order after the keys of gone have left
RECURSIVE Leave(_, _)
Leave(ks, gone) ==
  IF gone = {} THEN ks
  ELSE LET k == CHOOSE x \in gone : TRUE
       IN  Leave(Without(ks, k), gone \ {k})

\* the place of a key in the Map
Pos(m, k) == CHOOSE i \in DOMAIN m : m[i].k = k

\* the keys whose entry a set has removed: the keys that are no longer there,
\* and the key set itself when its entry was removed and entered again,
\* which puts it behind an entry it was in front of
Removed(m, after, c) ==
  (Keys(m) \ Keys(after)) \cup
  {k \in {c} \cap Keys(m) :
     \E k2 \in Keys(after) \cap Keys(m) :
        Pos(m, k) < Pos(m, k2) /\ Pos(after, k2) < Pos(after, k)}

\* the history after pathCache.set(c, v): the time of the insertion, the
\* path stored, and the order of entry (an overwritten key keeps its place)
Stored(p, m, c, v) ==
  LET after == CacheSet(m, c, v)
      left == Leave(p.order, Removed(m, after, c))
  IN  [p EXCEPT !.due = Append(p.due, p.now + TTL),
                !.ins[c] = [at |-> p.now, path |-> v],
                !.order = IF \E i \in DOMAIN left : left[i] = c THEN left
                          ELSE Append(left, c),
                !.evt = [NoEvent EXCEPT !.op = "set", !.full = Len(m) >= MaxSize,
                                        !.gone = Removed(m, after, c),
                                        !.oldest = IF p.order = <<>> THEN {}
                                                   ELSE {Head(p.order)}]]

\* pathCache.set(requestedPath, validatedPath) of the call in slot i, which
\* then returns validatedPath
PvSet(i, validatedPath) ==
  /\ cache' = CacheSet(cache, pv.calls[i].c, validatedPath)
  /\ timers' = Append(timers, pv.calls[i].c)
  /\ pv' = [Stored(pv, cache, pv.calls[i].c, validatedPath) EXCEPT !.calls[i] = NoCall]

\* validatePath threw in slot i
PvThrow(i) ==
  /\ pv' = [pv EXCEPT !.calls[i] = NoCall]
  /\ UNCHANGED <<cache, timers>>

\* a request calls validatePath(c, config) while other calls are in flight
\* (the lowest free slot takes it): pathCache.get, which returns at once
\* what it finds, and the check of the normalized path.  What the lookup
\* found is noted, with the time since the latest insertion of c.
PvCall(i, c) ==
  /\ pv.calls[i].pc = "idle"
  /\ \A j \in 1..(i - 1) : pv.calls[j].pc # "idle"
  /\ Len(timers) + Cardinality({j \in DOMAIN pv.calls : pv.calls[j].pc # "idle"})
       < MaxPending
  /\ LET out == validateLexical(config, cache, c)
         last == pv.ins[c]
         look == [NoLookup EXCEPT !.c = c, !.seen = TRUE,
                                  !.within = last.at >= 0 /\ pv.now - last.at < TTL,
                                  !.expect = last.path,
                                  !.expired = last.at < 0 \/ pv.now - last.at > TTL,
                                  !.age = IF last.at < 0 THEN -1 ELSE pv.now - last.at]
     IN  pv' = CASE out.kind = "return" ->
                      [pv EXCEPT !.obs = [look EXCEPT !.hit = TRUE, !.path = out.path]]
                 [] out.kind = "throw" -> [pv EXCEPT !.obs = look]
                 [] out.kind = "await" ->
                      [pv EXCEPT !.obs = look,
                                 !.calls[i] = [pc |-> "real", c |-> c,
                                               absolute |-> out.path]]
  /\ UNCHANGED <<config, cands, fs, cache, timers, call, boot, text, edit, multi, move,
                 mk, exec, load>>

\* fs.realpath(absolute) has answered the call in slot i
PvReal(i) ==
  /\ pv.calls[i].pc = "real"
  /\ LET out == validateReal(config, fs, pv.calls[i].absolute)
     IN  CASE out.kind = "return" -> PvSet(i, out.path)
           [] out.kind = "throw" -> PvThrow(i)
           [] out.kind = "await" ->
                /\ pv' = [pv EXCEPT !.calls[i].pc = "parent"]
                /\ UNCHANGED <<cache, timers>>
  /\ UNCHANGED <<config, cands, fs, call, boot, text, edit, multi, move,
                 mk, exec, load>>

\* fs.realpath(parentDir) has answered the call in slot i
PvParent(i) ==
  /\ pv.calls[i].pc = "parent"
  /\ LET out == validateParent(config, fs, pv.calls[i].absolute)
     IN  CASE out.kind = "return" -> PvSet(i, out.path)
           [] out.kind = "throw" -> PvThrow(i)
  /\ UNCHANGED <<config, cands, fs, call, boot, text, edit, multi, move,
                 mk, exec, load>>

\* the callback of setTimeout runs when its time has come: this.cache.delete
\* of the key it was scheduled for
Expire ==
  /\ timers # <<>> /\ pv.due[1] <= pv.now
  /\ cache' = MapDelete(cache, Head(timers))
  /\ timers' = Tail(timers)
  /\ pv' = [pv EXCEPT !.due = Tail(pv.due),
                      !.order = Without(pv.order, Head(timers)),
                      !.evt = [NoEvent EXCEPT !.op = "expire",
                                              !.had = MapHas(cache, Head(timers)),
                                              !.age = pv.now - pv.ins[Head(timers)].at]]
  /\ UNCHANGED <<config, cands, fs, call, boot, text, edit, multi, move,
                 mk, exec, load>>

\* time passes; a timer that is due runs before the clock moves on
Tick ==
  /\ pv.now < MaxTime
  /\ IF timers = <<>> THEN TRUE ELSE pv.due[1] > pv.now
  /\ pv' = [pv EXCEPT !.now = pv.now + 1]
  /\ UNCHANGED <<config, cands, fs, cache, timers, call, boot, text, edit, multi, move,
                 mk, exec, load>>

\* PathValidationCache.clear
PvClear ==
  /\ cache # <<>>
  /\ cache' = <<>>
  /\ pv' = [pv EXCEPT !.order = <<>>, !.evt = [NoEvent EXCEPT !.op = "clear"]]
  /\ UNCHANGED <<config, cands, fs, timers, call, boot, text, edit, multi, move,
                 mk, exec, load>>

\* another process makes /a/l a symlink to /a/f, or removes it
PvExternal(k) ==
  /\ fs[<<a, l>>] # k
  /\ fs' = [fs EXCEPT ![<<a, l>>] = k]
  /\ UNCHANGED <<config, cands, cache, timers, call, boot, text, edit, multi, move,
                 mk, exec, pv, load>>

InitCache ==
  /\ config = [allowedDirectories |-> << <<"/", "a">> >>,
               security |-> [allowSymlinks |-> TRUE, validateRealPath |-> TRUE]]
  /\ cands = PvCands
  /\ fs = [InitFs EXCEPT ![<<a, l>>] = Absent]
  /\ cache = <<>>
  /\ timers = <<>>
  /\ call = Idle
  /\ boot = Connected(config.allowedDirectories)
  /\ text = NoText
  /\ edit = NoEdit
  /\ multi = NoMulti
  /\ move = NoMove
  /\ mk = NoMk
  /\ exec = NoExec
  /\ pv = [pc |-> "running", now |-> 0, due |-> <<>>, order |-> <<>>,
           calls |-> [i \in 1..MaxCalls |-> NoCall],
           ins |-> [c \in PvCands |-> NeverIn], obs |-> NoLookup, evt |-> NoEvent]
  /\ load = NoLoad

NextCache ==
  \/ \E i \in 1..MaxCalls, c \in cands : PvCall(i, c)
  \/ \E i \in 1..MaxCalls : PvReal(i)
  \/ \E i \in 1..MaxCalls : PvParent(i)
  \/ Expire
  \/ Tick
  \/ PvClear
  \/ \E k \in {Absent, Link(<<a, f>>)} : PvExternal(k)

SpecCache == InitCache /\ [][NextCache]_vars

\* C23: whatever the validations, the timers and clear have done, the
\* cache holds at most maxSize entries.
C23_SizeNeverExceedsMaxSize == Len(cache) <= MaxSize

\* C24: a set on a full cache evicts exactly the entry that entered the
\* cache before every other entry present, whatever get has returned.
C24_FullCacheEvictsTheOldestEntry ==
  (pv.evt.op = "set" /\ pv.evt.full) => pv.evt.gone = pv.evt.oldest

C26_SecondCallWithinTtlIsServedFromCache ==
  (pv.obs.seen /\ pv.obs.within) => pv.obs.hit /\ pv.obs.path = pv.obs.expect

\* C27: an expiry timer removes an entry only when TTL has passed since the
\* insertion of that entry.
C27_ExpiryNeverBeforeTtl ==
  (pv.evt.op = "expire" /\ pv.evt.had) => pv.evt.age >= TTL

\* ------------------------------------------------------------------------
\* edit_file: the order of the edits and the match that is replaced
\* ------------------------------------------------------------------------

\* the text after the first edit of the call alone
AfterFirst == applyEdit(edit.before, edit.edits[1])

\* C28: the second edit of a call is matched against the text that the
\* first edit left, not against the text that was read: the call fails
\* exactly when the second oldText matches that text nowhere, and otherwise
\* returns the text that the second edit makes of it.
C28_EditsApplyInOrderOnTheEditedText ==
  (Edited /\ Len(edit.edits) = 2 /\ AfterFirst.err = "")
    => IF Unmatched(AfterFirst.content, edit.edits[2].oldText)
       THEN edit.kind = "throw" /\ edit.msg = MsgNoMatch
       ELSE /\ edit.kind = "return"
            /\ edit.content = applyEdit(AfterFirst.content, edit.edits[2]).content

\* the second oldText stands nowhere in the text that was read and matches
\* after the first edit has put it there; the file is written
C28_Witness ==
  /\ Edited /\ Len(edit.edits) = 2 /\ AfterFirst.err = ""
  /\ Unmatched(edit.before, edit.edits[2].oldText)
  /\ ~Unmatched(AfterFirst.content, edit.edits[2].oldText)
  /\ edit.kind = "return" /\ edit.write /\ OnDisk = edit.content

\* oldText matches the document at two line offsets or more
Several(doc, oldText) ==
  LET docLines == splitLines(doc)
      oldLines == splitLines(replaceCrLf(oldText))
  IN  \E i, k \in 0..Len(docLines) :
        i < k /\ MatchesAt(docLines, oldLines, i) /\ MatchesAt(docLines, oldLines, k)

\* C29: when the oldText of a single edit matches the text that was read at
\* several line offsets, the lines before the lowest matching offset and
\* the lines after the block matched there are in the result as they were,
\* and between them stand as many lines as newText has.
C29_OnlyTheFirstMatchIsReplaced ==
  (Edited /\ Len(edit.edits) = 1 /\ edit.kind = "return"
     /\ Several(edit.before, edit.edits[1].oldText))
    => LET i == FirstOffset(edit.before, edit.edits[1].oldText)
           docLines == splitLines(edit.before)
           oldLines == splitLines(replaceCrLf(edit.edits[1].oldText))
           typed == splitLines(replaceCrLf(edit.edits[1].newText))
           result == splitLines(edit.content)
       IN  /\ Len(result) = Len(docLines) - Len(oldLines) + Len(typed)
           /\ SubSeq(result, 1, i) = SubSeq(docLines, 1, i)
           /\ SubSeq(result, i + Len(typed) + 1, Len(result))
                = SubSeq(docLines, i + Len(oldLines) + 1, Len(docLines))

\* an edit whose oldText matched both lines of the file changed the first
\* line, left the second, and the file was written
C29_Witness ==
  /\ Edited /\ Len(edit.edits) = 1 /\ edit.kind = "return"
  /\ Several(edit.before, edit.edits[1].oldText)
  /\ splitLines(edit.content)[1] # splitLines(edit.before)[1]
  /\ splitLines(edit.content)[2] = splitLines(edit.before)[2]
  /\ edit.write /\ OnDisk = edit.content

\* ------------------------------------------------------------------------
\* loadConfig, and the startup of the server on what it returns
\* ------------------------------------------------------------------------

\* the argument --config=/c and its prefix
ConfigPrefix == <<"-", "-", "c", "o", "n", "f", "i", "g", "=">>
ConfigArg == ConfigPrefix \o <<"/", "c">>

\* process.argv.slice(2) of the runs: nothing, directories, the config
\* argument alone and with a directory
Argvs ==
  { <<>>,
    << <<"/", "a">> >>,
    << <<"/", "b">>, <<"/", "a", "/", "f">> >>,
    << ConfigArg >>,
    << ConfigArg, <<"/", "a">> >> }

\* no --config argument, so no file is read
NoFile == [kind |-> "none", has |-> FALSE, dirs |-> <<>>, valid |-> TRUE]

\* the configuration file that --config names: one that cannot be read or
\* parsed, and the JSON objects without allowedDirectories, with an empty
\* list, with a list, and with a list next to a logLevel that the schema
\* refuses
ConfigFiles ==
  { [kind |-> "unreadable", has |-> FALSE, dirs |-> <<>>, valid |-> TRUE],
    [kind |-> "json", has |-> FALSE, dirs |-> <<>>, valid |-> TRUE],
    [kind |-> "json", has |-> TRUE, dirs |-> <<>>, valid |-> TRUE],
    [kind |-> "json", has |-> TRUE, dirs |-> << <<"/", "a">> >>, valid |-> TRUE],
    [kind |-> "json", has |-> TRUE, dirs |-> << <<"/", "r">> >>, valid |-> FALSE] }

\* args.find((arg) => arg.startsWith('--config=')): the places of such
\* arguments
ConfigArgsOf(argv) == {i \in DOMAIN argv : StartsWith(argv[i], ConfigPrefix)}

\* dir => normalizePath(path.resolve(expandHome(dir)))
resolveDir(dir) == normalizePath(pathResolve(Cwd, expandHome(dir)))

\* ConfigSchema.parse: allowedDirectories needs one entry at least, and the
\* other fields their types
ConfigSchema(allowedDirectories, valid) == Len(allowedDirectories) >= 1 /\ valid

\* the security settings of defaultConfig
DefaultSecurity == [allowSymlinks |-> TRUE, validateRealPath |-> TRUE]

\* loadConfig(configPath): the Config it resolves to, or the error of the
\* second ConfigSchema.parse.  userConfig is {} when there is no file or the
\* file cannot be read; has tells whether userConfig.allowedDirectories is
\* set.
loadConfig(argv, file) ==
  LET read == file.kind = "json"
      inFile == read /\ file.has /\ Len(file.dirs) > 0
      has == IF inFile THEN TRUE
             ELSE IF Len(argv) > 0 THEN TRUE
             ELSE read /\ file.has
      allowedDirectories ==
        IF inFile THEN [i \in DOMAIN file.dirs |-> resolveDir(file.dirs[i])]
        ELSE IF Len(argv) > 0 THEN [i \in DOMAIN argv |-> resolveDir(argv[i])]
        ELSE <<>>
      valid == ~read \/ file.valid
      fallback == IF has THEN allowedDirectories ELSE <<Cwd>>
  IN  IF ConfigSchema(allowedDirectories, valid)
      THEN [err |-> "", allowedDirectories |-> allowedDirectories]
      ELSE IF ConfigSchema(fallback, TRUE)
           THEN [err |-> "", allowedDirectories |-> fallback]
           ELSE [err |-> "ZodError", allowedDirectories |-> <<>>]

\* loadConfig(configPath).then(runServer).catch(... process.exit(1))
LoadConfig ==
  /\ load.pc = "start"
  /\ LET cfg == loadConfig(load.argv, load.file)
     IN  IF cfg.err # ""
         THEN /\ load' = [load EXCEPT !.pc = "failed"]
              /\ boot' = [boot EXCEPT !.pc = "exited"]
              /\ UNCHANGED config
         ELSE /\ load' = [load EXCEPT !.pc = "loaded"]
              /\ config' = [config EXCEPT !.allowedDirectories = cfg.allowedDirectories]
              /\ boot' = Starting("main", cfg.allowedDirectories)
  /\ UNCHANGED <<cands, fs, cache, timers, call, text, edit, multi, move,
                 mk, exec, pv>>

InitConfig ==
  /\ config = [allowedDirectories |-> <<>>, security |-> DefaultSecurity]
  /\ cands = {}
  /\ fs = InitFs
  /\ cache = <<>>
  /\ timers = <<>>
  /\ call = Idle
  /\ boot = [srv |-> "main", pc |-> "loading", seen |-> <<>>, handled |-> 0]
  /\ text = NoText
  /\ edit = NoEdit
  /\ multi = NoMulti
  /\ move = NoMove
  /\ mk = NoMk
  /\ exec = NoExec
  /\ pv = NoPv
  /\ \E argv \in Argvs :
       \E file \in (IF ConfigArgsOf(argv) = {} THEN {NoFile} ELSE ConfigFiles) :
          load = [pc |-> "start", argv |-> argv, file |-> file]

NextConfig ==
  \/ LoadConfig
  \/ \E i \in DOMAIN boot.seen : StartupStat(i)
  \/ StartupExit
  \/ StartupConnect
  \/ HandleRequest
  \/ \E n \in MutableNodes : \E k \in KindsOf(n) : External(n, k)

SpecConfig == InitConfig /\ [][NextConfig]_vars

\* the directories that the command line or the configuration file names
\* as allowed directories
Supplied ==
  {resolveDir(load.argv[i]) : i \in DOMAIN load.argv \ ConfigArgsOf(load.argv)}
    \cup (IF load.file.kind = "json" /\ load.file.has
          THEN {resolveDir(load.file.dirs[i]) : i \in DOMAIN load.file.dirs}
          ELSE {})

\* C30: a request is handled only under allowed directories that the
\* command line or the configuration file supplied, and when they supply
\* none, loadConfig fails.
C30_OnlySuppliedDirectoriesAreServed ==
  /\ boot.handled > 0
       => \A i \in DOMAIN config.allowedDirectories :
             config.allowedDirectories[i] \in Supplied
  /\ (load.pc # "start" /\ Supplied = {}) => load.pc = "failed"

====
